---- MODULE Spec2Model ----
(***************************************************************************)
(* DAUBA backend: the pending-write store of file_handler.py and the       *)
(* write path of the /ask handler of main.py, run by concurrent request    *)
(* handler threads.                                                        *)
(*                                                                         *)
(* Strings whose content the code inspects (paths) are sequences of        *)
(* one-character strings.  A block run under `with _storage_lock` is one   *)
(* atomic action: nothing inside any of the blocks blocks, so the lock     *)
(* makes each of them indivisible with respect to the others.  Steps of a  *)
(* call that touch nothing another thread can see (path arithmetic, the    *)
(* validators, the write of the target file, the git subprocesses) are     *)
(* joined to the next step of the call that does.                          *)
(* log_action is modelled by its try branch (the append); the audit sink   *)
(* is taken to be writable.                                                *)
(*                                                                         *)
(* The enrichment of a prompt (main.py lines 72-86: inject_manifest,       *)
(* inject_suggestions, inject_includes, inject_context) touches nothing a  *)
(* concurrent request changes but the files it reads.  It is modelled on   *)
(* its own: PipeSpec follows one ask request from its prompt through the   *)
(* four resolvers to the call of the model and the write path; ContextSpec,*)
(* SuggestSpec, IncludeSpec and ResolveSpec call inject_context,           *)
(* inject_suggestions, inject_includes and the path resolvers directly;    *)
(* SpliceSpec runs the four resolvers over files and a manifest whose text *)
(* holds directives.  Spec and SeqSpec take up each ask request at the     *)
(* call of the model.  A prompt is a sequence of parts (words, whitespace, *)
(* directives); the payload of a directive is a string and is parsed as    *)
(* the handlers parse it.                                                  *)
(*                                                                         *)
(* In Spec a request may name any identifier.  ClientSpec keeps to the     *)
(* requests a client can make, which learns an identifier from the reply   *)
(* of the ask request that staged it; ConfirmSpec starts from one staged   *)
(* write and follows the confirm and reject requests on it to the status   *)
(* of the HTTP response.                                                   *)
(***************************************************************************)
EXTENDS Integers, Sequences, FiniteSets, TLC

\* ------------------------------------------------------------------ bounds
NThreads == 2
MaxCalls == 3
MaxIds == 2
MaxPromptLen == 2

Threads == 1..NThreads
Ids == 1..MaxIds
NoId == 0

\* ------------------------------------------------------------------- paths
SEP == "/"
REPO_PATH == <<"/", "r">>
PyPath == <<"d", "/", "a", ".", "p", "y">>
TxtPath == <<"n", ".", "m", "d">>
EscPath == <<".", ".", "/", "x">>
Paths == {PyPath, TxtPath, EscPath}

\* str.endswith
EndsWith(s, suffix) ==
    /\ Len(s) >= Len(suffix)
    /\ SubSeq(s, Len(s) - Len(suffix) + 1, Len(s)) = suffix

\* s.split("/"): the components between separators, empty ones included
RECURSIVE SplitSep(_, _, _)
SplitSep(s, i, cur) ==
    IF i > Len(s) THEN <<cur>>
    ELSE IF s[i] = SEP THEN <<cur>> \o SplitSep(s, i + 1, <<>>)
    ELSE SplitSep(s, i + 1, Append(cur, s[i]))

\* os.path.join(a, p): an absolute p replaces a
PathJoin(a, p) ==
    IF Len(p) > 0 /\ p[1] = SEP THEN p
    ELSE IF Len(a) = 0 \/ a[Len(a)] = SEP THEN a \o p
    ELSE a \o <<SEP>> \o p

\* os.path.normpath of an absolute path, as its list of components:
\* empty and "." components are dropped, ".." removes the component before it
\* and is dropped at the root
RECURSIVE NormComps(_, _)
NormComps(comps, acc) ==
    IF comps = <<>> THEN acc
    ELSE LET c == Head(comps)
             rest == Tail(comps)
         IN IF c = <<>> \/ c = <<".">> THEN NormComps(rest, acc)
            ELSE IF c = <<".", ".">>
                 THEN NormComps(rest, IF acc = <<>> THEN acc
                                      ELSE SubSeq(acc, 1, Len(acc) - 1))
            ELSE NormComps(rest, Append(acc, c))

\* os.path.abspath of a path that is already absolute
AbsPath(p) == NormComps(SplitSep(p, 1, <<>>), <<>>)

\* os.path.commonpath([a, b]) of two normalised absolute paths
RECURSIVE CommonPath(_, _)
CommonPath(a, b) ==
    IF a = <<>> \/ b = <<>> \/ Head(a) # Head(b) THEN <<>>
    ELSE <<Head(a)>> \o CommonPath(Tail(a), Tail(b))

\* os.path.dirname of a normalised absolute path
DirName(a) == IF a = <<>> THEN a ELSE SubSeq(a, 1, Len(a) - 1)

\* a normalised absolute path written back as a string
RECURSIVE PathStr(_)
PathStr(a) ==
    IF a = <<>> THEN <<>> ELSE <<SEP>> \o Head(a) \o PathStr(Tail(a))

abs_repo_path(repo_base_path) == AbsPath(repo_base_path)
abs_file_path(repo_base_path, path) ==
    AbsPath(PathJoin(PathStr(abs_repo_path(repo_base_path)), path))

\* the secure path check of confirm_write
InsideRepo(repo_base_path, path) ==
    CommonPath(abs_repo_path(repo_base_path), abs_file_path(repo_base_path, path))
        = abs_repo_path(repo_base_path)

\* ------------------------------------------------------------------- codes
\* A code payload is known by the verdict each external tool gives on it and
\* by whether it is Black's output.
Code(b, r, s, m, f) ==
    [black |-> b, ruff |-> r, syntax |-> s, semantic |-> m, formatted |-> f]
GoodCode == Code(TRUE, TRUE, TRUE, TRUE, FALSE)
RawCodes == {GoodCode,
             Code(FALSE, TRUE, TRUE, TRUE, FALSE),
             Code(TRUE, FALSE, TRUE, TRUE, FALSE),
             Code(TRUE, TRUE, FALSE, TRUE, FALSE),
             Code(TRUE, TRUE, TRUE, FALSE, FALSE)}
NoCode == Code(FALSE, FALSE, FALSE, FALSE, FALSE)

\* format_code_with_black: (formatted_code, None) or (None, error)
format_error(code) == ~code.black
formatted_code(code) == [code EXCEPT !.formatted = TRUE]
\* lint_code_with_ruff: is_clean
is_clean(code) == code.ruff
\* check_syntax: is_valid
is_valid(path, code) == IF EndsWith(path, <<".", "p", "y">>) THEN code.syntax ELSE TRUE
\* check_semantics: the list of warnings is non-empty
semantic_warnings(code) == ~code.semantic

is_python(suggested_path) == EndsWith(suggested_path, <<".", "p", "y">>)

Prompts == {"p1"}

\* the write requests a reply of the model may hold: its path and its code
Replies == {[path |-> PyPath, code |-> c] : c \in RawCodes}
    \cup {[path |-> TxtPath, code |-> Code(TRUE, TRUE, TRUE, FALSE, FALSE)],
          [path |-> EscPath, code |-> GoodCode]}

\* ------------------------------------------------- the repository on disk
\* The files a request finds, by normalised absolute path.  A file is known
\* by what the resolvers look at: its lines (blank, or text of so many words
\* each), its word count (estimate_token_count of its content), the word
\* count of what extract_high_signal_blocks keeps of it, whether ast.parse
\* accepts it, and its top-level functions and classes: the line the
\* statement starts at (its first decorator, if it has any), the line of its
\* def or class keyword (the node's lineno) and its last line; and the
\* bracket directives written in its text, each with the line it is on.
MAX_CONTEXT_TOKENS == 1000
MAX_TOKENS_PER_FILE == 500
MAX_INCLUDE_TOKENS == 2000
\* the default window of _extract_context_window
window == 10

File(n, blank, per_line, signal, defs) ==
    [lines |-> [i \in 1..n |-> IF i \in blank THEN "blank" ELSE "text"],
     per_line |-> per_line,
     words |-> per_line * Cardinality((1..n) \ blank),
     signal |-> signal, defs |-> defs, parses |-> TRUE, embeds |-> << >>]

\* the directives in the lines lo..hi of a file, in the order of the text
EmbedsIn(f, lo, hi) ==
    LET within == SelectSeq(f.embeds, LAMBDA e : lo <= e.at /\ e.at <= hi)
    IN [i \in 1..Len(within) |-> within[i].part]

DiskFiles ==
    (<<<<"r">>, <<"a">>>> :>
        File(40, {12, 31}, 10, 50,
             {[name |-> <<"m">>, first |-> 2, lineno |-> 2, last |-> 5],
              [name |-> <<"k">>, first |-> 20, lineno |-> 22, last |-> 25]})) @@
    (<<<<"r">>, <<"b">>>> :> File(5, {}, 100, 40, {})) @@
    (<<<<"r">>, <<"c">>>> :> File(30, {}, 23, 300, {})) @@
    (<<<<"r">>, <<"g">>>> :> File(45, {}, 55, 1100, {})) @@
    \* a file ast.parse raises on: prose, or code with a syntax error
    (<<<<"r">>, <<"t">>>> :> [File(4, {}, 5, 10, {}) EXCEPT !.parses = FALSE]) @@
    \* a file whose text holds two bracket directives
    (<<<<"r">>, <<"h">>>> :>
        [File(6, {}, 2, 6, {}) EXCEPT !.embeds =
            <<[at |-> 3, part |-> [k |-> "context", payload |-> <<"c">>]],
              [at |-> 5, part |-> [k |-> "include", payload |-> <<"b">>]]>>]) @@
    (<<<<"r">>, <<"d">>, <<"a", ".", "p", "y">>>> :> File(3, {}, 1, 3, {})) @@
    (<<<<"r", "x">>, <<"f">>>> :> File(3, {}, 2, 6, {})) @@
    (<<<<"a">>, <<"b">>, <<"a">>>> :> File(3, {}, 2, 6, {})) @@
    (<<<<"a">>, <<"b", "c">>, <<"f">>>> :> File(3, {}, 2, 6, {}))

DiskDirs == {<<>>, <<<<"r">>>>, <<<<"r">>, <<"d">>>>, <<<<"r", "x">>>>,
             <<<<"a">>>>, <<<<"a">>, <<"b">>>>, <<<<"a">>, <<"b", "c">>>>}

NoFile == File(0, {}, 0, 0, {})

\* os.path.isfile
isfile(full_path) == full_path \in DOMAIN DiskFiles

\* open(path, "r").read(): the file, or the exception open raises
OpenRead(full_path) ==
    IF isfile(full_path) THEN [raises |-> "", file |-> DiskFiles[full_path]]
    ELSE IF full_path \in DiskDirs
    THEN [raises |-> "IsADirectoryError", file |-> NoFile]
    ELSE [raises |-> "FileNotFoundError", file |-> NoFile]

\* --------------------------------------------------------- path resolvers
\* a normalised absolute path as the string os.path.abspath returns
AbsStr(a) == IF a = <<>> THEN <<SEP>> ELSE PathStr(a)

\* str.startswith
StartsWith(s, prefix) ==
    /\ Len(s) >= Len(prefix)
    /\ SubSeq(s, 1, Len(prefix)) = prefix

Resolved(full_path) == [raises |-> "", path |-> full_path]
Raised(exception) == [raises |-> exception, path |-> <<>>]

\* context_handler.resolve_path_safe
resolve_path_safe(base_path, relative_path) ==
    LET base_abs == AbsPath(base_path)
        full_path == AbsPath(PathJoin(AbsStr(base_abs), relative_path))
    IN IF CommonPath(base_abs, full_path) # base_abs
       THEN Raised("ValueError")
       ELSE Resolved(full_path)

\* include_handler._resolve_path_safe
include_resolve_path_safe(base_path, relative_path) ==
    LET base_abs == AbsPath(base_path)
        full_path == AbsPath(PathJoin(AbsStr(base_abs), relative_path))
    IN IF CommonPath(base_abs, full_path) # base_abs
       THEN Raised("ValueError")
       ELSE Resolved(full_path)

\* suggest_handler._resolve_path_safe: the check is a string prefix test
suggest_resolve_path_safe(base_path, relative_path) ==
    LET full_path == AbsPath(PathJoin(base_path, relative_path))
    IN IF ~StartsWith(AbsStr(full_path), AbsStr(AbsPath(base_path)))
       THEN Raised("ValueError")
       ELSE IF ~isfile(full_path) THEN Raised("FileNotFoundError")
       ELSE Resolved(full_path)

\* inject_analysis._resolve_path_safe
analysis_resolve_path_safe(base_path, relative_path) ==
    LET base_abs == AbsPath(base_path)
        full_path == AbsPath(PathJoin(AbsStr(base_abs), relative_path))
    IN IF CommonPath(base_abs, full_path) # base_abs
       THEN Raised("ValueError")
       ELSE IF ~isfile(full_path) THEN Raised("FileNotFoundError")
       ELSE Resolved(full_path)

\* the resolver of each directive handler
Resolvers == {"context", "include", "suggest", "analyze"}
ResolveBy(by, base_path, relative_path) ==
    CASE by = "context" -> resolve_path_safe(base_path, relative_path)
      [] by = "include" -> include_resolve_path_safe(base_path, relative_path)
      [] by = "suggest" -> suggest_resolve_path_safe(base_path, relative_path)
      [] by = "analyze" -> analysis_resolve_path_safe(base_path, relative_path)

\* ---------------------------------------------------------------- prompts
\* A prompt is a sequence of parts: words, whitespace, the directives the
\* handlers' patterns match (with the payload the pattern captures, as a
\* string), and what the resolvers splice in.
Word == [k |-> "word"]
Space == [k |-> "space"]
ManifestMark == [k |-> "manifest"]
Directive(keyword, payload) == [k |-> keyword, payload |-> payload]
Text(by, what) == [k |-> "text", by |-> by, what |-> what]

\* str.strip, of a prompt (ws is Space) or of a string (ws is " ")
RECURSIVE LStrip(_, _)
LStrip(s, ws) ==
    IF s # << >> /\ Head(s) = ws THEN LStrip(Tail(s), ws) ELSE s
RECURSIVE RStrip(_, _)
RStrip(s, ws) ==
    IF s # << >> /\ s[Len(s)] = ws THEN RStrip(SubSeq(s, 1, Len(s) - 1), ws)
    ELSE s
Strip(s, ws) == RStrip(LStrip(s, ws), ws)

\* str.split(sep): the pieces between separators, empty ones included
RECURSIVE SplitOn(_, _, _, _)
SplitOn(s, sep, i, cur) ==
    IF i > Len(s) THEN <<cur>>
    ELSE IF s[i] = sep THEN <<cur>> \o SplitOn(s, sep, i + 1, << >>)
    ELSE SplitOn(s, sep, i + 1, Append(cur, s[i]))

\* str.split(sep, 1): the text before the first separator and the text after
SplitFirst(s, sep) ==
    LET at == {i \in 1..Len(s) : s[i] = sep}
        i == CHOOSE i \in at : \A j \in at : i <= j
    IN <<SubSeq(s, 1, i - 1), SubSeq(s, i + 1, Len(s))>>

\* The patterns are applied to the prompt as one string: text an earlier
\* resolver spliced in is searched like the rest.  A spliced part lists the
\* directives written in its text under "embeds".
Spliced(part) == "embeds" \in DOMAIN part

\* pattern.findall: the payloads of the directives of one keyword, in order
RECURSIVE FindAll(_, _)
FindAll(prompt, keyword) ==
    IF prompt = << >> THEN << >>
    ELSE (IF Head(prompt).k = keyword THEN <<Head(prompt).payload>>
          ELSE IF Spliced(Head(prompt)) THEN FindAll(Head(prompt).embeds, keyword)
          ELSE << >>)
         \o FindAll(Tail(prompt), keyword)

\* pattern.sub("", prompt): the prompt without the directives of one keyword
RECURSIVE SubAll(_, _)
SubAll(prompt, keyword) ==
    IF prompt = << >> THEN << >>
    ELSE (IF Head(prompt).k = keyword THEN << >>
          ELSE IF Spliced(Head(prompt))
          THEN <<[Head(prompt) EXCEPT !.embeds = SubAll(@, keyword)]>>
          ELSE <<Head(prompt)>>)
         \o SubAll(Tail(prompt), keyword)

\* the sum of the costs of a list of blocks
RECURSIVE Cost(_)
Cost(blocks) ==
    IF blocks = << >> THEN 0 ELSE Head(blocks).cost + Cost(Tail(blocks))

\* ------------------------------------------------------------ the handlers
\* what a resolver returns to ask_llm, with the prompt it was given
Result(by, given, prompt, warnings) ==
    [by |-> by, given |-> given, prompt |-> prompt, warnings |-> warnings]

\* context_handler.parse_context_directive: the paths of one payload
RECURSIVE StripAll(_)
StripAll(pieces) ==
    IF pieces = << >> THEN << >>
    ELSE (IF Strip(Head(pieces), " ") = << >> THEN << >>
          ELSE <<Strip(Head(pieces), " ")>>) \o StripAll(Tail(pieces))
RECURSIVE AllPaths(_)
AllPaths(matches) ==
    IF matches = << >> THEN << >>
    ELSE StripAll(SplitOn(Head(matches), ",", 1, << >>)) \o AllPaths(Tail(matches))

parse_context_directive(prompt) ==
    IF FindAll(prompt, "context") = << >>
    THEN [file_paths |-> << >>, clean_prompt |-> Strip(prompt, Space)]
    ELSE [file_paths |-> AllPaths(FindAll(prompt, "context")),
          clean_prompt |-> Strip(SubAll(prompt, "context"), Space)]

\* lines 127-132: the block of an accepted file
ContextBlock(file_path, tokens, clipped) ==
    [k |-> "block", by |-> "context", path |-> file_path, cost |-> tokens,
     clipped |-> clipped]

\* mutant: a block is compared with the ceiling, not with what is left of it
context_body_per_block(l, repo_path, file_path) ==
    LET r == resolve_path_safe(repo_path, file_path)
        o == OpenRead(r.path)
        clipped == o.file.words > MAX_TOKENS_PER_FILE
        tokens == IF clipped THEN o.file.signal ELSE o.file.words
        warn(w) == [l EXCEPT !.warnings = Append(@, w)]
    IN IF r.raises = "ValueError"
       THEN warn([kind |-> "path_traversal", path |-> file_path])
       ELSE IF o.raises = "FileNotFoundError"
       THEN warn([kind |-> "file_not_found", path |-> file_path])
       ELSE IF o.raises # ""
       THEN warn([kind |-> "error_reading", path |-> file_path])
       ELSE IF tokens > MAX_CONTEXT_TOKENS
       THEN warn([kind |-> "not_enough_budget", path |-> file_path,
                  left |-> l.token_budget, needed |-> tokens])
       ELSE [l EXCEPT
               !.warnings = IF clipped
                            THEN Append(@, [kind |-> "clipped",
                                            path |-> file_path])
                            ELSE @,
               !.context_blocks =
                   Append(@, ContextBlock(file_path, tokens, clipped)),
               !.token_budget = @ - tokens]

\* mutant: only FileNotFoundError and ValueError are caught; any other
\* failure of the read ends the path without a warning
context_body_narrow(l, repo_path, file_path) ==
    LET r == resolve_path_safe(repo_path, file_path)
        o == OpenRead(r.path)
        clipped == o.file.words > MAX_TOKENS_PER_FILE
        tokens == IF clipped THEN o.file.signal ELSE o.file.words
        warn(w) == [l EXCEPT !.warnings = Append(@, w)]
    IN IF r.raises = "ValueError"
       THEN warn([kind |-> "path_traversal", path |-> file_path])
       ELSE IF o.raises = "FileNotFoundError"
       THEN warn([kind |-> "file_not_found", path |-> file_path])
       ELSE IF o.raises # ""
       THEN l
       ELSE IF tokens > l.token_budget
       THEN warn([kind |-> "not_enough_budget", path |-> file_path,
                  left |-> l.token_budget, needed |-> tokens])
       ELSE [l EXCEPT
               !.warnings = IF clipped
                            THEN Append(@, [kind |-> "clipped",
                                            path |-> file_path])
                            ELSE @,
               !.context_blocks =
                   Append(@, ContextBlock(file_path, tokens, clipped)),
               !.token_budget = @ - tokens]

\* context_handler.inject_context, lines 107-140: what one path of the loop
\* does to the blocks, the warnings and the budget
context_body(l, repo_path, file_path) ==
    LET r == resolve_path_safe(repo_path, file_path)
        o == OpenRead(r.path)
        clipped == o.file.words > MAX_TOKENS_PER_FILE
        tokens == IF clipped THEN o.file.signal ELSE o.file.words
        warn(w) == [l EXCEPT !.warnings = Append(@, w)]
    IN IF r.raises = "ValueError"
       THEN warn([kind |-> "path_traversal", path |-> file_path])
       ELSE IF o.raises = "FileNotFoundError"
       THEN warn([kind |-> "file_not_found", path |-> file_path])
       ELSE IF o.raises # ""
       THEN warn([kind |-> "error_reading", path |-> file_path])
       ELSE IF tokens > l.token_budget
       THEN warn([kind |-> "not_enough_budget", path |-> file_path,
                  left |-> l.token_budget, needed |-> tokens])
       ELSE [l EXCEPT
               !.warnings = IF clipped
                            THEN Append(@, [kind |-> "clipped",
                                            path |-> file_path])
                            ELSE @,
               !.context_blocks =
                   Append(@, ContextBlock(file_path, tokens, clipped)),
               !.token_budget = @ - tokens]

\* lines 142-152: the prompt inject_context returns
context_final(l) ==
    IF l.context_blocks = << >> THEN l.clean_prompt
    ELSE <<Text("context", "preamble")>> \o l.context_blocks
         \o <<Text("context", "user_request")>> \o l.clean_prompt

\* --------------------------------------------------------------- manifest
LoadedManifest == [loaded |-> TRUE, words |-> 30, embeds |-> << >>]
\* a manifest one of whose values quotes an include directive
QuotingManifest ==
    [loaded |-> TRUE, words |-> 30,
     embeds |-> <<[k |-> "include", payload |-> <<"b">>]>>]

\* str.replace("[[manifest]]", text): every occurrence
RECURSIVE ReplaceMarks(_, _)
ReplaceMarks(prompt, part) ==
    IF prompt = << >> THEN << >>
    ELSE <<IF Head(prompt) = ManifestMark THEN part ELSE Head(prompt)>>
         \o ReplaceMarks(Tail(prompt), part)

HasPart(prompt, part) == \E i \in 1..Len(prompt) : prompt[i] = part

\* manifest_handler.inject_manifest; yaml.dump of what yaml.safe_load or
\* json.load returned does not raise
manifest_resolver(prompt, manifest) ==
    IF ~HasPart(prompt, ManifestMark)
    THEN [prompt |-> prompt, warnings |-> << >>]
    ELSE IF ~manifest.loaded
    THEN [prompt |-> ReplaceMarks(prompt, Text("manifest", "not_available")),
          warnings |-> <<[kind |-> "manifest_missing"]>>]
    ELSE [prompt |-> ReplaceMarks(prompt, [k |-> "block", by |-> "manifest",
                                           cost |-> manifest.words,
                                           embeds |-> manifest.embeds]),
          warnings |-> << >>]

\* ---------------------------------------------------------------- suggest
Digits == <<"0", "1", "2", "3", "4", "5", "6", "7", "8", "9">>
IsDigit(c) == \E i \in 1..10 : Digits[i] = c
DigitValue(c) == (CHOOSE i \in 1..10 : Digits[i] = c) - 1

\* int(s): the number, or ValueError
IsInt(s) == s # << >> /\ \A i \in 1..Len(s) : IsDigit(s[i])
RECURSIVE IntOf(_, _)
IntOf(s, acc) ==
    IF s = << >> THEN acc ELSE IntOf(Tail(s), 10 * acc + DigitValue(Head(s)))

Max(a, b) == IF a >= b THEN a ELSE b
Min(a, b) == IF a <= b THEN a ELSE b

\* lines[i:j] as the list of the line numbers it holds
Slice(i, j) == [k \in 1..Max(0, j - i) |-> i + k]

\* "".join(...).strip() leaves out the blank lines at either end
RECURSIVE StripBlank(_, _)
StripBlank(numbers, lines) ==
    IF numbers = << >> THEN numbers
    ELSE IF lines[Head(numbers)] = "blank" THEN StripBlank(Tail(numbers), lines)
    ELSE IF lines[numbers[Len(numbers)]] = "blank"
    THEN StripBlank(SubSeq(numbers, 1, Len(numbers) - 1), lines)
    ELSE numbers

\* mutant: the window is not added after the selection
extract_context_window_short(lines, start, end, w) ==
    LET start_idx == Max(0, start - 1)
        end_idx == Min(Len(lines), end)
        context_start_idx == Max(0, start_idx - w)
        context_end_idx == Min(Len(lines), end_idx)
    IN [code_block |-> Slice(context_start_idx, context_end_idx),
        actual_start_line |-> context_start_idx + 1,
        actual_end_line |-> context_end_idx]

\* suggest_handler._extract_context_window
extract_context_window(lines, start, end, w) ==
    LET start_idx == Max(0, start - 1)
        end_idx == Min(Len(lines), end)
        context_start_idx == Max(0, start_idx - w)
        context_end_idx == Min(Len(lines), end_idx + w)
    IN [code_block |-> Slice(context_start_idx, context_end_idx),
        actual_start_line |-> context_start_idx + 1,
        actual_end_line |-> context_end_idx]

\* the text lines among the line numbers
TextLines(numbers, lines) ==
    {i \in 1..Len(numbers) : lines[numbers[i]] = "text"}

\* lines 68-109: the block for the first directive, or the exception
suggest_block(target_str, repo_path) ==
    LET parts == SplitOn(target_str, ":", 1, << >>)
        file_path == parts[1]
        line_range == parts[2]
        ends == SplitOn(line_range, "-", 1, << >>)
        start_line == IntOf(ends[1], 0)
        end_line == IntOf(ends[2], 0)
        r == suggest_resolve_path_safe(repo_path, file_path)
        f == OpenRead(r.path).file
        x == extract_context_window(f.lines, start_line, end_line, window)
        shown == StripBlank(x.code_block, f.lines)
    IN IF Len(parts) # 2 THEN [raises |-> "malformed_directive"]
       ELSE IF Len(ends) < 2 THEN [raises |-> "malformed_line_range"]
       ELSE IF Len(ends) > 2 THEN [raises |-> "too_many_values"]
       ELSE IF ~IsInt(ends[1]) \/ ~IsInt(ends[2])
       THEN [raises |-> "invalid_literal"]
       ELSE IF start_line > end_line \/ start_line < 1
       THEN [raises |-> "invalid_line_range"]
       ELSE IF r.raises = "ValueError" THEN [raises |-> "path_traversal"]
       ELSE IF r.raises = "FileNotFoundError" THEN [raises |-> "file_not_found"]
       ELSE [raises |-> "",
             block |-> [k |-> "block", by |-> "suggest", path |-> file_path,
                        actual_start |-> x.actual_start_line,
                        actual_end |-> x.actual_end_line,
                        start_line |-> start_line, end_line |-> end_line,
                        shown |-> shown,
                        cost |-> f.per_line
                                 * Cardinality(TextLines(shown, f.lines)),
                        embeds |-> IF shown = << >> THEN << >>
                                   ELSE EmbedsIn(f, shown[1], shown[Len(shown)])]]

\* mutant: the substitution is not limited to the first directive
RECURSIVE SubFirst_all(_, _, _)
SubFirst_all(prompt, keyword, part) ==
    IF prompt = << >> THEN << >>
    ELSE <<IF Head(prompt).k = keyword THEN part
           ELSE IF Spliced(Head(prompt))
           THEN [Head(prompt) EXCEPT !.embeds = SubFirst_all(@, keyword, part)]
           ELSE Head(prompt)>>
         \o SubFirst_all(Tail(prompt), keyword, part)

\* pattern.sub(x, prompt, count=1): the first directive replaced
RECURSIVE SubFirst(_, _, _)
SubFirst(prompt, keyword, part) ==
    IF prompt = << >> THEN << >>
    ELSE IF Head(prompt).k = keyword THEN <<part>> \o Tail(prompt)
    ELSE IF Spliced(Head(prompt)) /\ FindAll(Head(prompt).embeds, keyword) # << >>
    THEN <<[Head(prompt) EXCEPT !.embeds = SubFirst(@, keyword, part)]>>
         \o Tail(prompt)
    ELSE <<Head(prompt)>> \o SubFirst(Tail(prompt), keyword, part)

\* suggest_handler.inject_suggestions
suggestions_resolver(prompt, repo_path) ==
    LET matches == FindAll(prompt, "suggest")
        b == suggest_block(matches[1], repo_path)
        injected_block == IF b.raises = "" THEN b.block
                          ELSE [k |-> "text", by |-> "suggest",
                                what |-> "unavailable", error |-> b.raises]
    IN IF matches = << >> THEN [prompt |-> prompt, warnings |-> << >>]
       ELSE [prompt |-> Strip(SubFirst(prompt, "suggest", injected_block), Space),
             warnings |-> IF b.raises = "" THEN << >>
                          ELSE <<[kind |-> b.raises, target |-> matches[1]]>>]

\* ---------------------------------------------------------------- include
FunctionKey == <<"f", "u", "n", "c", "t", "i", "o", "n">>
ClassKey == <<"c", "l", "a", "s", "s">>
Contains(s, c) == \E i \in 1..Len(s) : s[i] = c

\* str.lower
Lower(s) ==
    LET Uppers ==
            <<"A", "B", "C", "D", "E", "F", "G", "H", "I", "J", "K", "L", "M",
              "N", "O", "P", "Q", "R", "S", "T", "U", "V", "W", "X", "Y", "Z">>
        Lowers ==
            <<"a", "b", "c", "d", "e", "f", "g", "h", "i", "j", "k", "l", "m",
              "n", "o", "p", "q", "r", "s", "t", "u", "v", "w", "x", "y", "z">>
    IN [i \in 1..Len(s) |->
           IF \E j \in 1..Len(Uppers) : Uppers[j] = s[i]
           THEN Lowers[CHOOSE j \in 1..Len(Uppers) : Uppers[j] = s[i]]
           ELSE s[i]]

\* include_handler._extract_named_function_or_class: the source segment of
\* the first node of tree.body with that name (ast.get_source_segment: from
\* the node's lineno to its end), the comment that the target was not found,
\* or the comment that the file could not be parsed
extract_named(f, name) ==
    IF ~f.parses
    THEN [what |-> "failed_to_extract", first |-> 0, last |-> 0, cost |-> 0]
    ELSE IF \E df \in f.defs : df.name = name
    THEN LET df == CHOOSE df \in f.defs :
                       /\ df.name = name
                       /\ \A other \in f.defs :
                              other.name = name => df.lineno <= other.lineno
         IN [what |-> "definition", first |-> df.lineno, last |-> df.last,
             cost |-> f.per_line
                      * Cardinality({i \in df.lineno..df.last :
                                        f.lines[i] = "text"})]
    ELSE [what |-> "could_not_find", first |-> 0, last |-> 0, cost |-> 0]

\* include_handler.inject_includes, lines 60-96: what one directive of the
\* loop does to the blocks and the warnings
include_body(l, repo_path, raw) ==
    LET has_target == Contains(raw, ":")
        file_path == Strip(IF has_target THEN SplitFirst(raw, ":")[1] ELSE raw, " ")
        target == IF has_target THEN SplitFirst(raw, ":")[2] ELSE << >>
        r == include_resolve_path_safe(repo_path, file_path)
        o == OpenRead(r.path)
        key == Lower(Strip(SplitFirst(target, "=")[1], " "))
        val == Strip(SplitFirst(target, "=")[2], " ")
        warn(w) == [l EXCEPT !.warnings = Append(@, w)]
        block(b) == [l EXCEPT !.included_blocks = Append(@, b)]
    IN IF r.raises = "ValueError"
       THEN warn([kind |-> "path_traversal", path |-> file_path])
       ELSE IF o.raises = "FileNotFoundError"
       THEN warn([kind |-> "file_not_found", path |-> file_path])
       ELSE IF o.raises # ""
       THEN warn([kind |-> "error_reading", path |-> file_path])
       ELSE IF target = << >>
       THEN IF o.file.words > MAX_INCLUDE_TOKENS
            THEN [l EXCEPT
                    !.warnings = Append(@, [kind |-> "include_skipped",
                                            path |-> file_path]),
                    !.included_blocks =
                        Append(@, [k |-> "block", by |-> "include",
                                   path |-> file_path, what |-> "skipped",
                                   cost |-> 0])]
            ELSE block([k |-> "block", by |-> "include", path |-> file_path,
                        what |-> "file", cost |-> o.file.words,
                        embeds |-> EmbedsIn(o.file, 1, Len(o.file.lines))])
       ELSE IF ~Contains(target, "=")
       THEN warn([kind |-> "malformed_target", raw |-> raw])
       ELSE IF key \notin {FunctionKey, ClassKey}
       THEN warn([kind |-> "unsupported_type", raw |-> raw])
       ELSE block([k |-> "block", by |-> "include", path |-> file_path,
                   key |-> key, val |-> val,
                   what |-> extract_named(o.file, val).what,
                   first |-> extract_named(o.file, val).first,
                   last |-> extract_named(o.file, val).last,
                   cost |-> extract_named(o.file, val).cost,
                   embeds |-> EmbedsIn(o.file, extract_named(o.file, val).first,
                                       extract_named(o.file, val).last)])

RECURSIVE include_loop(_, _, _)
include_loop(l, repo_path, matches) ==
    IF matches = << >> THEN l
    ELSE include_loop(include_body(l, repo_path, Head(matches)), repo_path,
                      Tail(matches))

\* mutant: the wrapper is built whether or not a block was included
includes_resolver_wraps(prompt, repo_path) ==
    LET clean_prompt == Strip(SubAll(prompt, "include"), Space)
        l == include_loop([included_blocks |-> << >>, warnings |-> << >>],
                          repo_path, FindAll(prompt, "include"))
    IN [prompt |-> <<Text("include", "included_code_blocks")>>
                   \o l.included_blocks
                   \o <<Text("include", "user_prompt")>> \o clean_prompt,
        warnings |-> l.warnings]

\* include_handler.inject_includes
includes_resolver(prompt, repo_path) ==
    LET clean_prompt == Strip(SubAll(prompt, "include"), Space)
        l == include_loop([included_blocks |-> << >>, warnings |-> << >>],
                          repo_path, FindAll(prompt, "include"))
    IN [prompt |-> IF l.included_blocks # << >>
                   THEN <<Text("include", "included_code_blocks")>>
                        \o l.included_blocks
                        \o <<Text("include", "user_prompt")>> \o clean_prompt
                   ELSE clean_prompt,
        warnings |-> l.warnings]

\* ------------------------------------------------------- the HTTP endpoints
\* result["write_result"] of each way confirm_write returns (file_handler.py
\* lines 114, 124, 142, 150, 156-158 and 165); commit_hash[:7] is seven
\* hexadecimal digits
write_result(result, path) ==
    LET
        MsgNotFound ==
            <<"E", "r", "r", "o", "r", ":", " ", "P", "e", "n", "d", "i", "n", "g",
              " ", "w", "r", "i", "t", "e", " ", "n", "o", "t", " ", "f", "o", "u",
              "n", "d", ".">>
        MsgOutside ==
            <<"E", "r", "r", "o", "r", ":", " ", "C", "a", "n", "n", "o", "t", " ",
              "w", "r", "i", "t", "e", " ", "o", "u", "t", "s", "i", "d", "e", " ",
              "o", "f", " ", "r", "e", "p", "o", "s", "i", "t", "o", "r", "y", ".">>
        MsgWroteTo ==
            <<"W", "r", "o", "t", "e", " ", "t", "o", " ">>
        MsgNotGit ==
            <<" ", "(", "n", "o", "t", " ", "a", " ", "G", "i", "t", " ", "r", "e",
              "p", "o", ")", ".">>
        MsgCreatedCommit ==
            <<" ", "a", "n", "d", " ", "c", "r", "e", "a", "t", "e", "d", " ", "c",
              "o", "m", "m", "i", "t", " ">>
        MsgGitWarning ==
            <<" ", "\n", "W", "A", "R", "N", "I", "N", "G", ":", " ", "G", "i",
              "t", " ", "c", "o", "m", "m", "i", "t", " ", "f", "a", "i", "l", "e",
              "d", ":", " ">>
        MsgGitError ==
            <<"G", "i", "t", " ", "c", "o", "m", "m", "a", "n", "d", " ", "f", "a",
              "i", "l", "e", "d", ":", " ">>
        MsgFailed ==
            <<"F", "a", "i", "l", "e", "d", " ", "t", "o", " ", "w", "r", "i", "t",
              "e", " ", "f", "i", "l", "e", ":", " ">>
        CommitHash == <<"0", "a", "1", "b", "2", "c", "3">>
    IN
    CASE result = "not_found" -> MsgNotFound
      [] result = "outside_repository" -> MsgOutside
      [] result = "wrote_not_git" -> MsgWroteTo \o path \o MsgNotGit
      [] result = "wrote_and_committed" ->
            MsgWroteTo \o path \o MsgCreatedCommit \o CommitHash
      [] result = "wrote_commit_warning" ->
            MsgWroteTo \o path \o MsgGitWarning \o MsgGitError
      [] result = "failed_to_write" -> MsgFailed

\* main.py lines 170-176: the status of the response; an exception that
\* confirm_write lets through is answered with status 500 by the framework
confirm_write_operation(result, path) ==
    IF result = "raised_KeyError" THEN 500
    ELSE LET res_str == Lower(write_result(result, path))
             \* sub in s
             HasSub(s, sub) ==
                 \E i \in 1..(Len(s) - Len(sub) + 1) :
                     SubSeq(s, i, i + Len(sub) - 1) = sub
         IN IF HasSub(res_str, <<"e", "r", "r", "o", "r">>)
               \/ HasSub(res_str, <<"f", "a", "i", "l", "e", "d">>)
            THEN 500 ELSE 200

\* ------------------------------------------------------------------- state
VARIABLES
    pending_writes_storage, \* file_handler.pending_writes_storage
    files,                  \* the files under the repository: path -> content
    dirs,                   \* the directories that exist
    log,                    \* logs/actions.log, one record per line
    issued,                 \* the identifiers uuid4 has produced
    frame,                  \* per thread, the locals of the call it is running
    ncalls,                 \* requests received so far
    \* the record of what has happened, read by the properties only
    added,                  \* the arguments and result of each add_pending_write
    found,                  \* per identifier, the confirm and reject calls
                            \* whose lookup found its entry
    confirmed,              \* per identifier, the confirm_write calls that
                            \* returned a result reporting the file written
    rejected,               \* per identifier, the reject_pending_write calls
                            \* that returned write_rejected
    answered,               \* per identifier, the confirm and reject calls
                            \* that returned anything but the not-found failure
    last,                   \* the call that returned last and its result
    fileWrites,             \* per identifier, the times its file was written
    gitRuns,                \* per identifier, the confirms that ran git for it
    \* the enrichment of one ask request (main.py lines 72-86), or one call
    \* of a resolver
    manifest_data,          \* manifest_loader._manifest_data
    stage,                  \* the line the request or call has reached
    args,                   \* the arguments of the call
    loc,                    \* the locals of the resolver that is running
    returned,               \* what each resolver returned, in order
    all_warnings            \* ask_llm.all_warnings

pipe == <<manifest_data, stage, args, loc, returned, all_warnings>>

vars == <<pending_writes_storage, files, dirs, log, issued, frame, ncalls,
          added, found, confirmed, rejected, answered, last, fileWrites,
          gitRuns, pipe>>

disk == <<files, dirs, fileWrites, gitRuns>>

NoneEntry == [id |-> NoId, prompt |-> "", path |-> <<>>, code |-> NoCode,
              timestamp |-> 0, repo_base_path |-> <<>>]

IdleFrame == [pc |-> "idle", op |-> "", pending_id |-> NoId,
              pending_op |-> NoneEntry, return_message |-> "", wrote |-> FALSE]

\* no manifest was loaded
NoManifest == [loaded |-> FALSE, words |-> 0]
NoArgs == [base_path |-> <<>>, relative_path |-> <<>>]
NoLoc == [by |-> ""]

\* the write path is studied from the call of the model on: no enrichment
\* is in progress
PipeOff ==
    /\ manifest_data = NoManifest
    /\ stage = "off"
    /\ args = NoArgs
    /\ loc = NoLoc
    /\ returned = << >>
    /\ all_warnings = << >>

StoreInit ==
    /\ pending_writes_storage = [i \in {} |-> NoneEntry]
    /\ files = [f \in {} |-> NoCode]
    /\ dirs = {abs_repo_path(REPO_PATH)}
    /\ log = << >>
    /\ issued = {}
    /\ frame = [t \in Threads |-> IdleFrame]
    /\ ncalls = 0
    /\ added = {}
    /\ found = [i \in Ids |-> 0]
    /\ fileWrites = [i \in Ids |-> 0]
    /\ gitRuns = [i \in Ids |-> 0]
    /\ confirmed = [i \in Ids |-> 0]
    /\ rejected = [i \in Ids |-> 0]
    /\ answered = [i \in Ids |-> 0]
    /\ last = [op |-> "", id |-> NoId, result |-> "", wrote |-> FALSE,
               ran |-> << >>]

Init == StoreInit /\ PipeOff

\* ----------------------------------------------------------------- helpers
Pending == DOMAIN pending_writes_storage

\* dict.get
StorageGet(id) ==
    IF id \in Pending THEN pending_writes_storage[id] ELSE NoneEntry

\* mutant: the removal is forgotten
StorageKept(id) == pending_writes_storage

\* del d[k] on a present key, d.pop(k, None)
StorageWithout(id) ==
    [i \in Pending \ {id} |-> pending_writes_storage[i]]

\* d[k] = v
StorageWith(id, entry) ==
    [i \in Pending \cup {id} |-> IF i = id THEN entry ELSE pending_writes_storage[i]]

\* mutant: the line is written at the head of the file
log_action_at_head(action_type, pending_id) ==
    log' = <<[action |-> action_type, pending_id |-> pending_id]>> \o log

\* log_action: append one line
log_action(action_type, pending_id) ==
    log' = Append(log, [action |-> action_type, pending_id |-> pending_id])

\* the results that report that no entry was found
NotFoundResults == {"not_found", "rejection_failed"}

\* the results of confirm_write that report the file written
WroteResults == {"wrote_not_git", "wrote_and_committed", "wrote_commit_warning"}

\* a call returns: its result is counted and the thread is free again;
\* ran lists the validators an ask request ran
Returns(t, op, id, result, ran) ==
    /\ frame' = [frame EXCEPT ![t] = IdleFrame]
    /\ confirmed' = IF op = "confirm" /\ result \in WroteResults
                    THEN [confirmed EXCEPT ![id] = @ + 1] ELSE confirmed
    /\ rejected' = IF op = "reject" /\ result = "write_rejected"
                   THEN [rejected EXCEPT ![id] = @ + 1] ELSE rejected
    /\ answered' = IF op \in {"confirm", "reject"} /\ result \notin NotFoundResults
                   THEN [answered EXCEPT ![id] = @ + 1] ELSE answered
    /\ last' = [op |-> op, id |-> id, result |-> result,
                wrote |-> frame[t].wrote, ran |-> ran]

Return(t, op, id, result) == Returns(t, op, id, result, << >>)

NoReturn == UNCHANGED <<confirmed, rejected, answered, last>>

\* a call starts with fresh locals
Call(t, op, label, id, entry) ==
    frame' = [frame EXCEPT ![t] = [pc |-> label, op |-> op, pending_id |-> id,
                                   pending_op |-> entry, return_message |-> "",
                                   wrote |-> FALSE]]

\* a request is taken by the first free worker thread
CanStart(t) ==
    /\ frame[t].pc = "idle"
    /\ \A u \in Threads : u < t => frame[u].pc # "idle"
    /\ ncalls < MaxCalls

\* --------------------------------------------------------- get_pending_write
\* lines 66-68
get_pending_write(t, pending_id) ==
    /\ CanStart(t)
    /\ ncalls' = ncalls + 1
    /\ Return(t, "get", pending_id,
              IF StorageGet(pending_id) = NoneEntry THEN "None" ELSE "entry")
    /\ UNCHANGED <<pending_writes_storage, log, issued, added, found, disk>>

\* ------------------------------------------------------ reject_pending_write
\* mutant: the removal uses pop with a default and the absent case is not
\* told apart
reject_lookup_blind(t, pending_id) ==
    /\ CanStart(t)
    /\ ncalls' = ncalls + 1
    /\ pending_writes_storage' = StorageWithout(pending_id)
    /\ found' = [found EXCEPT ![pending_id] = @ + 1]
    /\ Call(t, "reject", "rj_log", pending_id, StorageGet(pending_id))
    /\ NoReturn
    /\ UNCHANGED <<log, issued, added, disk>>

\* lines 72-76: the locked lookup and removal
reject_lookup(t, pending_id) ==
    /\ CanStart(t)
    /\ ncalls' = ncalls + 1
    /\ IF StorageGet(pending_id) = NoneEntry
       THEN /\ Return(t, "reject", pending_id, "rejection_failed")
            /\ UNCHANGED <<pending_writes_storage, found>>
       ELSE /\ pending_writes_storage' = StorageWithout(pending_id)
            /\ found' = [found EXCEPT ![pending_id] = @ + 1]
            /\ Call(t, "reject", "rj_log", pending_id, StorageGet(pending_id))
            /\ NoReturn
    /\ UNCHANGED <<log, issued, added, disk>>

\* lines 77-82: the log line and the return
reject_log(t) ==
    /\ frame[t].pc = "rj_log"
    /\ log_action("pending_write_rejected", frame[t].pending_id)
    /\ Return(t, "reject", frame[t].pending_id, "write_rejected")
    /\ UNCHANGED <<pending_writes_storage, issued, ncalls, added, found, disk>>

reject_pending_write(t) ==
    \/ \E pending_id \in Ids : reject_lookup(t, pending_id)
    \/ reject_log(t)

\* ------------------------------------------------------------- confirm_write
\* mutant: the lookup stamps the entry it finds with the time of the lookup
confirm_lookup_stamps(t, pending_id) ==
    /\ CanStart(t)
    /\ ncalls' = ncalls + 1
    /\ IF StorageGet(pending_id) = NoneEntry
       THEN /\ Return(t, "confirm", pending_id, "not_found")
            /\ UNCHANGED <<pending_writes_storage, found>>
       ELSE /\ found' = [found EXCEPT ![pending_id] = @ + 1]
            /\ pending_writes_storage' =
                    [pending_writes_storage EXCEPT ![pending_id].timestamp = @ + 1]
            /\ Call(t, "confirm", "cw_path", pending_id, StorageGet(pending_id))
            /\ NoReturn
    /\ UNCHANGED <<log, issued, added, disk>>

\* lines 111-115: the locked lookup; the entry stays in the store
confirm_lookup(t, pending_id) ==
    /\ CanStart(t)
    /\ ncalls' = ncalls + 1
    /\ IF StorageGet(pending_id) = NoneEntry
       THEN /\ Return(t, "confirm", pending_id, "not_found")
            /\ UNCHANGED found
       ELSE /\ found' = [found EXCEPT ![pending_id] = @ + 1]
            /\ Call(t, "confirm", "cw_path", pending_id, StorageGet(pending_id))
            /\ NoReturn
    /\ UNCHANGED <<pending_writes_storage, log, issued, added, disk>>

\* lines 117-124: the path check; outside the repository the entry is deleted
\* under the lock, and del raises KeyError when it is no longer there
confirm_path_check(t, repo_base_path) ==
    /\ frame[t].pc = "cw_path"
    /\ IF InsideRepo(repo_base_path, frame[t].pending_op.path)
       THEN /\ frame' = [frame EXCEPT ![t].pc = "cw_write"]
            /\ NoReturn
            /\ UNCHANGED pending_writes_storage
       ELSE IF frame[t].pending_id \in Pending
       THEN /\ pending_writes_storage' = StorageWithout(frame[t].pending_id)
            /\ Return(t, "confirm", frame[t].pending_id, "outside_repository")
       ELSE /\ Return(t, "confirm", frame[t].pending_id, "raised_KeyError")
            /\ UNCHANGED pending_writes_storage
    /\ UNCHANGED <<log, issued, ncalls, added, found, disk>>

\* lines 126-135 and 160-165: makedirs, open and write, each of which may
\* raise, then the log line of the write or of its failure
WriteOutcomes == {"written", "makedirs_raised", "open_raised"}

confirm_write_file(t, repo_base_path, outcome) ==
    LET target == abs_file_path(repo_base_path, frame[t].pending_op.path)
    IN
    /\ frame[t].pc = "cw_write"
    /\ dirs' = IF outcome = "makedirs_raised" THEN dirs
               ELSE dirs \cup {DirName(target)}
    /\ IF outcome = "written"
       THEN /\ files' = [f \in DOMAIN files \cup {target} |->
                            IF f = target THEN frame[t].pending_op.code
                            ELSE files[f]]
            /\ fileWrites' = [fileWrites EXCEPT ![frame[t].pending_id] = @ + 1]
            /\ log_action("write_file_confirmed", frame[t].pending_id)
            /\ frame' = [frame EXCEPT ![t].pc = "cw_git", ![t].wrote = TRUE]
       ELSE /\ log_action("confirm_write_failed", frame[t].pending_id)
            /\ frame' = [frame EXCEPT ![t].pc = "cw_pop",
                                      ![t].return_message = "failed_to_write"]
            /\ UNCHANGED <<files, fileWrites>>
    /\ NoReturn
    /\ UNCHANGED <<pending_writes_storage, issued, ncalls, added, found, gitRuns>>

\* lines 138-142: no .git directory; del inside the try raises KeyError when
\* the entry is gone, which the handler of lines 160-165 catches
confirm_not_git(t) ==
    /\ frame[t].pc = "cw_git"
    /\ IF frame[t].pending_id \in Pending
       THEN /\ pending_writes_storage' = StorageWithout(frame[t].pending_id)
            /\ Return(t, "confirm", frame[t].pending_id, "wrote_not_git")
            /\ UNCHANGED log
       ELSE /\ log_action("confirm_write_failed", frame[t].pending_id)
            /\ frame' = [frame EXCEPT ![t].pc = "cw_pop",
                                      ![t].return_message = "failed_to_write"]
            /\ NoReturn
            /\ UNCHANGED pending_writes_storage
    /\ UNCHANGED <<issued, ncalls, added, found, disk>>

\* lines 144-158 with _run_git_command (lines 87-101): git add, commit,
\* rev-parse.  A missing git and a non-zero exit become RuntimeError, logged
\* as git_commit_failed; any other exception of subprocess.run passes to the
\* handler of lines 160-165.
GitOutcomes == {"committed", "git_missing", "add_failed", "commit_failed",
                "rev_parse_failed", "other_exception"}

\* mutant: a failed commit is logged and then fails the whole confirm
confirm_git_fatal(t, outcome) ==
    /\ frame[t].pc = "cw_git"
    /\ gitRuns' = [gitRuns EXCEPT ![frame[t].pending_id] = @ + 1]
    /\ CASE outcome = "committed" -> UNCHANGED log
         [] outcome = "other_exception" ->
                log_action("confirm_write_failed", frame[t].pending_id)
         [] OTHER -> log_action("git_commit_failed", frame[t].pending_id)
    /\ frame' = [frame EXCEPT
            ![t].pc = "cw_pop",
            ![t].return_message =
                IF outcome = "committed" THEN "wrote_and_committed"
                ELSE "failed_to_write"]
    /\ NoReturn
    /\ UNCHANGED <<pending_writes_storage, issued, ncalls, added, found,
                   files, dirs, fileWrites>>

confirm_git(t, outcome) ==
    /\ frame[t].pc = "cw_git"
    /\ gitRuns' = [gitRuns EXCEPT ![frame[t].pending_id] = @ + 1]
    /\ CASE outcome = "committed" -> UNCHANGED log
         [] outcome = "other_exception" ->
                log_action("confirm_write_failed", frame[t].pending_id)
         [] OTHER -> log_action("git_commit_failed", frame[t].pending_id)
    /\ frame' = [frame EXCEPT
            ![t].pc = "cw_pop",
            ![t].return_message =
                CASE outcome = "committed" -> "wrote_and_committed"
                  [] outcome = "other_exception" -> "failed_to_write"
                  [] OTHER -> "wrote_commit_warning"]
    /\ NoReturn
    /\ UNCHANGED <<pending_writes_storage, issued, ncalls, added, found,
                   files, dirs, fileWrites>>

\* mutant: the final pop is missing
confirm_pop_keeps(t) ==
    /\ frame[t].pc = "cw_pop"
    /\ Return(t, "confirm", frame[t].pending_id, frame[t].return_message)
    /\ UNCHANGED <<pending_writes_storage, log, issued, ncalls, added, found, disk>>

\* lines 167-170
confirm_pop(t) ==
    /\ frame[t].pc = "cw_pop"
    /\ pending_writes_storage' = StorageWithout(frame[t].pending_id)
    /\ Return(t, "confirm", frame[t].pending_id, frame[t].return_message)
    /\ UNCHANGED <<log, issued, ncalls, added, found, disk>>

\* main.py line 172 passes REPO_PATH
confirm_write(t) ==
    \/ \E pending_id \in Ids : confirm_lookup(t, pending_id)
    \/ confirm_path_check(t, REPO_PATH)
    \/ \E outcome \in WriteOutcomes : confirm_write_file(t, REPO_PATH, outcome)
    \/ confirm_not_git(t)
    \/ \E outcome \in GitOutcomes : confirm_git(t, outcome)
    \/ confirm_pop(t)

\* --------------------------------------------------------- add_pending_write
\* mutant: identifiers come from a generator that repeats
uuid4_repeats == Ids

\* uuid4: an identifier no earlier call was given.  Identifiers are opaque,
\* so the fresh one is named by the least number not yet in use.
uuid4 == {i \in Ids \ issued : \A j \in Ids \ issued : i <= j}

\* datetime.utcnow() at an insertion: a clock that advances between
\* insertions, read as the number of insertions before this one
utcnow == Cardinality(issued)

\* lines 47-56: the identifier and the locked insertion
add_store(t, pending_id) ==
    /\ frame[t].pc = "add_store"
    /\ pending_id \in uuid4
    /\ issued' = issued \cup {pending_id}
    /\ pending_writes_storage' = StorageWith(pending_id,
            [frame[t].pending_op EXCEPT !.id = pending_id, !.timestamp = utcnow])
    /\ added' = added \cup
            {[frame[t].pending_op EXCEPT !.id = pending_id, !.timestamp = utcnow]}
    /\ frame' = [frame EXCEPT ![t].pc = "add_log", ![t].pending_id = pending_id]
    /\ NoReturn
    /\ UNCHANGED <<log, ncalls, found, disk>>

\* lines 57-63 and main.py lines 150-154: the log line and the reply
add_log(t) ==
    /\ frame[t].pc = "add_log"
    /\ log_action("pending_write_added", frame[t].pending_id)
    /\ Return(t, "ask", frame[t].pending_id, "pending_widget")
    /\ UNCHANGED <<pending_writes_storage, issued, ncalls, added, found, disk>>

add_pending_write(t) ==
    \/ \E pending_id \in Ids : add_store(t, pending_id)
    \/ add_log(t)

\* ------------------------------------------------------------------- ask_llm
\* mutant: the failure of the model call is answered but not logged
ask_fails_unlogged(t) ==
    /\ CanStart(t)
    /\ ncalls' = ncalls + 1
    /\ Return(t, "ask", NoId, "http_500")
    /\ UNCHANGED <<pending_writes_storage, log, issued, added, found, disk>>

\* lines 99-102 and 165-167: the call to the model raised
ask_fails(t) ==
    /\ CanStart(t)
    /\ ncalls' = ncalls + 1
    /\ log_action("ask_error", NoId)
    /\ Return(t, "ask", NoId, "http_500")
    /\ UNCHANGED <<pending_writes_storage, issued, added, found, disk>>

\* lines 108-109 and 156-163: the reply holds no write marker
ask_no_marker(t) ==
    /\ CanStart(t)
    /\ ncalls' = ncalls + 1
    /\ log_action("ask", NoId)
    /\ Return(t, "ask", NoId, "output")
    /\ UNCHANGED <<pending_writes_storage, issued, added, found, disk>>

\* mutant: the linter is not run
Validate_without_ruff(code, path) ==
    IF format_error(code)
    THEN [verdict |-> "black_formatting_failed", action |-> "formatting_failed",
          ran |-> <<"black">>, code |-> code]
    ELSE IF ~is_valid(path, formatted_code(code))
    THEN [verdict |-> "syntax_error_rejected", action |-> "syntax_check_failed",
          ran |-> <<"black", "syntax">>, code |-> formatted_code(code)]
    ELSE IF semantic_warnings(formatted_code(code))
    THEN [verdict |-> "semantic_validation_failed",
          action |-> "semantic_check_failed",
          ran |-> <<"black", "syntax", "semantic">>,
          code |-> formatted_code(code)]
    ELSE [verdict |-> "passed", action |-> "",
          ran |-> <<"black", "syntax", "semantic">>,
          code |-> formatted_code(code)]

\* mutant: a syntax error is logged by the checker but does not end the
\* request; the semantic check decides
Validate_past_syntax(code, path) ==
    IF format_error(code)
    THEN [verdict |-> "black_formatting_failed", action |-> "formatting_failed",
          ran |-> <<"black">>, code |-> code]
    ELSE IF ~is_clean(formatted_code(code))
    THEN [verdict |-> "linting_failed", action |-> "lint_check_failed",
          ran |-> <<"black", "ruff">>, code |-> formatted_code(code)]
    ELSE IF semantic_warnings(formatted_code(code))
    THEN [verdict |-> "semantic_validation_failed",
          action |-> "semantic_check_failed",
          ran |-> <<"black", "ruff", "syntax", "semantic">>,
          code |-> formatted_code(code)]
    ELSE [verdict |-> "passed", action |-> "",
          ran |-> <<"black", "ruff", "syntax", "semantic">>,
          code |-> formatted_code(code)]

\* lines 119-142: the validators in order, each on the code the one before
\* left; the first that rejects ends the request.  The verdict: the log
\* action and reply of the rejecting validator, or "passed", and the
\* validators that were run.
Validate(code, path) ==
    IF format_error(code)
    THEN [verdict |-> "black_formatting_failed", action |-> "formatting_failed",
          ran |-> <<"black">>, code |-> code]
    ELSE IF ~is_clean(formatted_code(code))
    THEN [verdict |-> "linting_failed", action |-> "lint_check_failed",
          ran |-> <<"black", "ruff">>, code |-> formatted_code(code)]
    ELSE IF ~is_valid(path, formatted_code(code))
    THEN [verdict |-> "syntax_error_rejected", action |-> "syntax_check_failed",
          ran |-> <<"black", "ruff", "syntax">>, code |-> formatted_code(code)]
    ELSE IF semantic_warnings(formatted_code(code))
    THEN [verdict |-> "semantic_validation_failed",
          action |-> "semantic_check_failed",
          ran |-> <<"black", "ruff", "syntax", "semantic">>,
          code |-> formatted_code(code)]
    ELSE [verdict |-> "passed", action |-> "",
          ran |-> <<"black", "ruff", "syntax", "semantic">>,
          code |-> formatted_code(code)]

\* lines 108-149: the reply holds a write marker with a path and code
ask_marker(t, original_prompt, suggested_path, code_to_write) ==
    LET v == IF is_python(suggested_path)
             THEN Validate(code_to_write, suggested_path)
             ELSE [verdict |-> "passed", action |-> "", ran |-> << >>,
                   code |-> code_to_write]
    IN
    /\ CanStart(t)
    /\ ncalls' = ncalls + 1
    /\ IF v.verdict = "passed"
       THEN /\ Call(t, "ask", "add_store", NoId,
                         [id |-> NoId, prompt |-> original_prompt,
                          path |-> suggested_path, code |-> v.code,
                          timestamp |-> 0, repo_base_path |-> REPO_PATH])
            /\ NoReturn
            /\ UNCHANGED log
       ELSE /\ log_action(v.action, NoId)
            /\ Returns(t, "ask", NoId, v.verdict, v.ran)
    /\ UNCHANGED <<pending_writes_storage, issued, added, found, disk>>

ask_llm(t) ==
    \/ ask_fails(t)
    \/ ask_no_marker(t)
    \/ \E p \in Prompts, r \in Replies : ask_marker(t, p, r.path, r.code)
    \/ add_pending_write(t)

\* ------------------------------------------------------------ inject_context
\* mutant: every resolver is given the original prompt
PromptFor_original(n) == args.prompt

\* the prompt ask_llm passes to the next resolver (lines 76, 79, 82, 85)
PromptFor(n) == IF n = 1 THEN args.prompt ELSE returned[n - 1].prompt

StoreIdle ==
    UNCHANGED <<pending_writes_storage, files, dirs, log, issued, frame,
                ncalls, added, found, confirmed, rejected, answered, last,
                fileWrites, gitRuns>>

\* a resolver returns to ask_llm, which extends all_warnings with its
\* warnings (lines 76-86)
ResolverReturns(by, prompt, warnings, next) ==
    /\ returned' = Append(returned,
                          Result(by, PromptFor(Len(returned) + 1), prompt,
                                 warnings))
    /\ all_warnings' = all_warnings \o warnings
    /\ stage' = next
    /\ loc' = NoLoc

\* lines 101-104
context_parse ==
    /\ stage = "context"
    /\ stage' = "context_loop"
    /\ loc' = [by |-> "context",
               file_paths |-> parse_context_directive(PromptFor(4)).file_paths,
               clean_prompt |-> parse_context_directive(PromptFor(4)).clean_prompt,
               context_blocks |-> << >>,
               warnings |-> << >>,
               token_budget |-> args.max_tokens]
    /\ UNCHANGED <<manifest_data, args, returned, all_warnings>>

\* mutant: an accepted block is not charged to the budget
context_file_uncharged ==
    /\ stage = "context_loop"
    /\ loc.file_paths # << >>
    /\ loc' = [context_body([loc EXCEPT !.file_paths = Tail(@)],
                            args.repo_path, Head(loc.file_paths))
                  EXCEPT !.token_budget = loc.token_budget]
    /\ UNCHANGED <<manifest_data, stage, args, returned, all_warnings>>

\* lines 106-140: one path of the loop
context_file ==
    /\ stage = "context_loop"
    /\ loc.file_paths # << >>
    /\ loc' = context_body([loc EXCEPT !.file_paths = Tail(@)],
                           args.repo_path, Head(loc.file_paths))
    /\ UNCHANGED <<manifest_data, stage, args, returned, all_warnings>>

\* lines 142-152
context_return ==
    /\ stage = "context_loop"
    /\ loc.file_paths = << >>
    /\ ResolverReturns("context", context_final(loc), loc.warnings, "model")
    /\ UNCHANGED <<manifest_data, args>>

inject_context ==
    \/ context_parse
    \/ context_file
    \/ context_return

\* ------------------------------------------- the other resolvers of ask_llm
\* line 76
inject_manifest ==
    /\ stage = "manifest"
    /\ LET r == manifest_resolver(PromptFor(1), manifest_data)
       IN ResolverReturns("manifest", r.prompt, r.warnings, "suggest")
    /\ UNCHANGED <<manifest_data, args>>

\* line 79
inject_suggestions ==
    /\ stage = "suggest"
    /\ LET r == suggestions_resolver(PromptFor(2), args.repo_path)
       IN ResolverReturns("suggest", r.prompt, r.warnings, "include")
    /\ UNCHANGED <<manifest_data, args>>

\* line 82
inject_includes ==
    /\ stage = "include"
    /\ LET r == includes_resolver(PromptFor(3), args.repo_path)
       IN ResolverReturns("include", r.prompt, r.warnings, "context")
    /\ UNCHANGED <<manifest_data, args>>

\* lines 88-167: the request calls the model once the four resolvers have
\* returned, and goes on as the write path above describes
call_model ==
    /\ stage = "model"
    /\ ncalls = 0 \/ frame[1].pc # "idle"
    /\ ask_llm(1)
    /\ UNCHANGED pipe

\* ------------------------------------------------------------ specification
\* one step of the request a worker thread serves
Handle(t) ==
    \/ ask_llm(t)
    \/ \E pending_id \in Ids : get_pending_write(t, pending_id)
    \/ reject_pending_write(t)
    \/ confirm_write(t)

\* requests are served concurrently
Next == (\E t \in Threads : Handle(t)) /\ UNCHANGED pipe

Spec == Init /\ [][Next]_vars

\* requests that do not overlap: a thread steps only while no other thread
\* is inside a call
SeqNext ==
    \E t \in Threads :
        /\ \A u \in Threads \ {t} : frame[u].pc = "idle"
        /\ Handle(t)
        /\ UNCHANGED pipe

SeqSpec == Init /\ [][SeqNext]_vars

\* ------------------------------------------- requests of clients, concurrent
\* An identifier is a uuid4 string: a request can name one only after the ask
\* request that staged it has returned it (main.py lines 150-154), or name a
\* string that was never issued.
Nameable ==
    {id \in Ids :
        \A t \in Threads : ~(frame[t].pc = "add_log" /\ frame[t].pending_id = id)}

\* a step of a request; the one a thread takes up names a nameable
\* identifier, or none
ClientNext ==
    \E t \in Threads :
        LET named == IF frame'[t].pc = "idle" THEN last'.id
                     ELSE frame'[t].pending_id
        IN /\ Handle(t)
           /\ frame[t].pc = "idle" => named \in Nameable \cup {NoId}
           /\ UNCHANGED pipe

ClientSpec == Init /\ [][ClientNext]_vars

\* ------------------------------------------------- the path resolvers alone
\* one call of one resolver on a root and a relative path, followed by the
\* open of its caller (context_handler 108-110, include_handler 64-66,
\* suggest_handler 87-89, inject_analysis 40-41)
Roots == {<<"/", "r">>, <<"/", "a", "/", "b">>}
Relatives ==
    {<<"a">>, <<"b">>, <<"m">>, <<"d">>, <<".", "/", "a">>,
     <<"d", "/", "a", ".", "p", "y">>, <<"d", "/", ".", ".", "/", "a">>,
     <<".", ".">>, <<".", ".", "/", ".", ".">>,
     <<".", ".", "/", "x">>, <<".", ".", "/", "r", "/", "a">>,
     <<".", ".", "/", "b", "/", "a">>,
     <<".", ".", "/", "r", "x", "/", "f">>,
     <<".", ".", "/", "b", "c", "/", "f">>,
     <<"d", "/", ".", ".", "/", ".", ".", "/", "r", "x", "/", "f">>}

ResolveInit ==
    /\ StoreInit
    /\ manifest_data = NoManifest
    /\ stage = "resolve"
    /\ args \in [base_path : Roots, relative_path : Relatives]
    /\ loc = NoLoc
    /\ returned = << >>
    /\ all_warnings = << >>

resolve_and_open(by) ==
    LET r == ResolveBy(by, args.base_path, args.relative_path)
    IN /\ stage = "resolve"
       /\ stage' = "resolved"
       /\ loc' = [by |-> by, result |-> r,
                  opened |-> r.raises = "" /\ OpenRead(r.path).raises = ""]
       /\ UNCHANGED <<manifest_data, args, returned, all_warnings>>

ResolveNext ==
    /\ \E by \in Resolvers : resolve_and_open(by)
    /\ UNCHANGED <<pending_writes_storage, files, dirs, log, issued, frame,
                   ncalls, added, found, confirmed, rejected, answered, last,
                   fileWrites, gitRuns>>

ResolveSpec == ResolveInit /\ [][ResolveNext]_vars

\* ------------------------------------------------------ inject_context alone
\* inject_context(prompt, repo_path, max_tokens) on any prompt of up to
\* MaxPromptLen parts and any ceiling; the prompt is the one the caller got
\* from the resolvers before
PromptsOver(alphabet) ==
    UNION {[1..n -> alphabet] : n \in 0..MaxPromptLen}

ContextAlphabet ==
    {Word, Space,
     Directive("context", <<"a">>),
     Directive("context", <<"b", ",", " ", "a", ",", "c">>),
     Directive("context", <<"g", ",", ".", ".", "/", "x">>),
     Directive("context", <<"m", ",", ",", "d">>),
     Directive("context", <<"c", ",", "d", "/", "a", ".", "p", "y">>)}

ContextCeilings == {0, 450, MAX_CONTEXT_TOKENS}

ContextInit ==
    /\ StoreInit
    /\ manifest_data = NoManifest
    /\ stage = "context"
    /\ args \in [prompt : PromptsOver(ContextAlphabet), repo_path : {REPO_PATH},
                  max_tokens : ContextCeilings]
    /\ loc = NoLoc
    /\ returned = [n \in 1..3 |-> Result("caller", args.prompt, args.prompt, << >>)]
    /\ all_warnings = << >>

ContextNext == inject_context /\ StoreIdle

ContextSpec == ContextInit /\ [][ContextNext]_vars

\* --------------------------------------------------- one ask request, whole
\* the enrichment of lines 72-86 on any prompt of up to MaxPromptLen parts,
\* then the call of the model and the write path
PipeAlphabet ==
    {Word, Space, ManifestMark,
     Directive("suggest", <<"a", ":", "1", "0", "-", "2", "0">>),
     Directive("suggest", <<"a", ":", "0", "-", "5">>),
     Directive("suggest", <<"b", ":", "3", "0", "-", "4", "0">>),
     Directive("suggest", <<"a">>),
     Directive("include", <<"a">>),
     Directive("include", <<"g">>),
     Directive("include", <<"a", ":", "f", "u", "n", "c", "t", "i", "o", "n",
                            "=", "m">>),
     Directive("include", <<"a", ":", "x", "=", "m">>),
     Directive("include", <<".", ".", "/", "x">>),
     Directive("context", <<"b", ",", " ", "a", ",", "c">>),
     Directive("context", <<"g", ",", ".", ".", "/", "x">>),
     Directive("context", <<"m", ",", ",", "d">>)}

PipeInit ==
    /\ StoreInit
    /\ manifest_data \in {NoManifest, LoadedManifest}
    /\ stage = "manifest"
    /\ args \in [prompt : PromptsOver(PipeAlphabet), repo_path : {REPO_PATH},
                 max_tokens : {MAX_CONTEXT_TOKENS}]
    /\ loc = NoLoc
    /\ returned = << >>
    /\ all_warnings = << >>

PipeNext ==
    \/ (inject_manifest \/ inject_suggestions \/ inject_includes
            \/ inject_context) /\ StoreIdle
    \/ call_model

PipeSpec == PipeInit /\ [][PipeNext]_vars

\* ------------------------------------ the enrichment over quoting content
\* the four resolvers of lines 72-86 on prompts whose directives name a file
\* that holds directives in its text, with a manifest that may quote one
SpliceAlphabet ==
    {Word, ManifestMark,
     Directive("suggest", <<"h", ":", "1", "-", "2">>),
     Directive("include", <<"h">>),
     Directive("include", <<"a">>),
     Directive("context", <<"b">>)}

SpliceInit ==
    /\ StoreInit
    /\ manifest_data \in {LoadedManifest, QuotingManifest}
    /\ stage = "manifest"
    /\ args \in [prompt : PromptsOver(SpliceAlphabet), repo_path : {REPO_PATH},
                 max_tokens : {MAX_CONTEXT_TOKENS}]
    /\ loc = NoLoc
    /\ returned = << >>
    /\ all_warnings = << >>

SpliceNext ==
    (inject_manifest \/ inject_suggestions \/ inject_includes \/ inject_context)
        /\ StoreIdle

SpliceSpec == SpliceInit /\ [][SpliceNext]_vars

\* -------------------------------------------------- inject_suggestions alone
\* inject_suggestions on the prompt "[[suggest: path:start-end]]" for the
\* files of 40 and of 5 lines and every start and end up to MaxLine
MaxLine == 45

\* str(n)
RECURSIVE Dec(_)
Dec(n) == IF n < 10 THEN <<Digits[n + 1]>>
          ELSE Dec(n \div 10) \o <<Digits[(n % 10) + 1]>>

SuggestPayload(path, start, end) ==
    path \o <<":">> \o Dec(start) \o <<"-">> \o Dec(end)

SuggestInit ==
    /\ StoreInit
    /\ manifest_data = NoManifest
    /\ stage = "suggest"
    /\ \E path \in {<<"a">>, <<"b">>}, start \in 0..MaxLine, end \in 0..MaxLine :
          args = [prompt |-> <<Directive("suggest",
                                         SuggestPayload(path, start, end))>>,
                  repo_path |-> REPO_PATH, max_tokens |-> MAX_CONTEXT_TOKENS,
                  path |-> path, start |-> start, end |-> end]
    /\ loc = NoLoc
    /\ returned = <<Result("caller", args.prompt, args.prompt, << >>)>>
    /\ all_warnings = << >>

SuggestNext == inject_suggestions /\ StoreIdle

SuggestSpec == SuggestInit /\ [][SuggestNext]_vars

\* ---------------------------------------------------- inject_includes alone
\* inject_includes on any prompt of up to MaxPromptLen parts over include
\* directives with and without a target
IncludeAlphabet ==
    LET Target(path, key, val) == path \o <<":">> \o key \o <<"=">> \o val
    IN
    {Word, Space,
     Directive("include", <<"a">>),
     Directive("include", <<"a", ":">>),
     Directive("include", <<"a", ":", "m">>),
     Directive("include", Target(<<"a">>, <<"x">>, <<"m">>)),
     Directive("include", Target(<<" ", "a">>, FunctionKey, <<"m">>)),
     Directive("include", Target(<<"a">>, FunctionKey, <<"k">>)),
     Directive("include", Target(<<"a">>, FunctionKey, <<"z">>)),
     Directive("include", Target(<<"a">>, <<"C", "l", "a", "s", "s">>, <<"m">>)),
     Directive("include", Target(<<"t">>, FunctionKey, <<"m">>)),
     Directive("include", Target(<<"n">>, ClassKey, <<"m">>))}

IncludeInit ==
    /\ StoreInit
    /\ manifest_data = NoManifest
    /\ stage = "include"
    /\ args \in [prompt : PromptsOver(IncludeAlphabet), repo_path : {REPO_PATH},
                 max_tokens : {MAX_CONTEXT_TOKENS}]
    /\ loc = NoLoc
    /\ returned = [n \in 1..2 |-> Result("caller", args.prompt, args.prompt, << >>)]
    /\ all_warnings = << >>

IncludeNext == inject_includes /\ StoreIdle

IncludeSpec == IncludeInit /\ [][IncludeNext]_vars

\* ------------------------------------------- the confirm and reject requests
\* confirm-write and reject-write requests on one staged write: the state
\* after an ask request has staged a write of a file that needs no validator
\* and has returned its widget
ConfirmInit ==
    /\ \E path \in {TxtPath, EscPath,
                      <<"E", "r", "r", "o", "r", "s", ".", "m", "d">>} :
          LET staged == [id |-> 1, prompt |-> "p1", path |-> path,
                         code |-> GoodCode, timestamp |-> 0,
                         repo_base_path |-> REPO_PATH]
          IN /\ pending_writes_storage = (1 :> staged)
             /\ added = {staged}
    /\ files = [f \in {} |-> NoCode]
    /\ dirs = {abs_repo_path(REPO_PATH)}
    /\ log = <<[action |-> "pending_write_added", pending_id |-> 1]>>
    /\ issued = {1}
    /\ frame = [t \in Threads |-> IdleFrame]
    /\ ncalls = 1
    /\ found = [i \in Ids |-> 0]
    /\ fileWrites = [i \in Ids |-> 0]
    /\ gitRuns = [i \in Ids |-> 0]
    /\ confirmed = [i \in Ids |-> 0]
    /\ rejected = [i \in Ids |-> 0]
    /\ answered = [i \in Ids |-> 0]
    /\ last = [op |-> "ask", id |-> 1, result |-> "pending_widget",
               wrote |-> FALSE, ran |-> << >>]
    /\ PipeOff

ConfirmNext ==
    (\E t \in Threads : reject_pending_write(t) \/ confirm_write(t))
        /\ UNCHANGED pipe

ConfirmSpec == ConfirmInit /\ [][ConfirmNext]_vars

\* ------------------------------------------------------------------ claims
\* a confirm or reject call on id is past its lookup and has not returned
InFlightTerminal(id) ==
    \E t \in Threads :
        /\ frame[t].pc # "idle"
        /\ frame[t].op \in {"confirm", "reject"}
        /\ frame[t].pending_id = id

\* the lines of the audit log with this action and identifier
LogLines(action_type, id) ==
    {k \in 1..Len(log) : log[k] = [action |-> action_type, pending_id |-> id]}

\* the absolute path confirm_write writes an added entry to
TargetOf(a) == abs_file_path(REPO_PATH, a.path)

\* C1: two concurrent confirm_write calls on one pending identifier: exactly
\* one returns a success write result and the file is written exactly once.
\* Stated as: no identifier has two confirm calls that returned a success
\* result, and no identifier's file is written twice.
C1_OneConfirmWrites ==
    \A id \in Ids : confirmed[id] <= 1 /\ fileWrites[id] <= 1

\* C2: a confirm_write and a reject_pending_write racing on one identifier
\* never both succeed: confirm reporting the file written and reject
\* reporting write_rejected.
C2_ConfirmRejectExclusive ==
    \A id \in Ids : ~(confirmed[id] >= 1 /\ rejected[id] >= 1)

C4_ConfirmRemoves ==
    /\ (last.op = "confirm" /\ last.result # "not_found")
            => last.id \notin Pending
    /\ \A id \in Ids :
        (found[id] >= 1 /\ ~InFlightTerminal(id)) => id \notin Pending

\* C4 witness: a confirm whose file write raised has returned
C4_Witness ==
    /\ last.op = "confirm"
    /\ last.result = "failed_to_write"
    /\ ~last.wrote
    /\ last.id \notin Pending

\* C5: concurrent add_pending_write calls get distinct identifiers, and
\* until a confirm or reject finds it each entry is in the store with the
\* prompt, path, code and repository root of its own call.
C5_AddsKept ==
    /\ \A a, b \in added : a.id = b.id => a = b
    /\ \A a \in added :
        /\ a.id \in Ids
        /\ found[a.id] = 0 =>
            /\ a.id \in Pending
            /\ pending_writes_storage[a.id] = a
    /\ \A t \in Threads :
        frame[t].pc = "add_log" =>
            \E a \in added :
                /\ a.id = frame[t].pending_id
                /\ a.prompt = frame[t].pending_op.prompt
                /\ a.path = frame[t].pending_op.path
                /\ a.code = frame[t].pending_op.code
                /\ a.repo_base_path = REPO_PATH

\* C5 witness: two add_pending_write calls overlap, both past the insertion
C5_Witness ==
    \E t, u \in Threads :
        /\ t # u
        /\ frame[t].pc = "add_log"
        /\ frame[u].pc = "add_log"
        /\ frame[t].pending_op.path # frame[u].pending_op.path
        /\ Cardinality(Pending) = 2

\* C6: a confirm_write whose recomputed target is outside the repository
\* returns the path-traversal error with the entry removed, and no
\* directory, file or git command comes of it.
C6_OutsideRejected ==
    \A a \in added :
        (~InsideRepo(REPO_PATH, a.path) /\ last.op = "confirm" /\ last.id = a.id)
            => /\ last.result \in {"outside_repository", "not_found"}
               /\ a.id \notin Pending
               /\ fileWrites[a.id] = 0
               /\ gitRuns[a.id] = 0
               /\ DirName(TargetOf(a)) \notin dirs

\* C7: when the file was written and git add, commit or rev-parse fails,
\* the call still returns a success write result carrying the warning, the
\* file stays on disk, git_commit_failed is logged and the entry is removed.
C7_CommitFailureNotFatal ==
    /\ \A id \in Ids :
        ~InFlightTerminal(id)
            => confirmed[id] >= Cardinality(LogLines("git_commit_failed", id))
    /\ last.result = "wrote_commit_warning" =>
        /\ last.op = "confirm"
        /\ last.wrote
        /\ last.id \notin Pending
        /\ LogLines("git_commit_failed", last.id) # {}
        /\ \A a \in added :
            a.id = last.id =>
                /\ TargetOf(a) \in DOMAIN files
                /\ files[TargetOf(a)] = a.code

\* C7 witness: a confirm has returned the commit warning
C7_Witness ==
    /\ last.op = "confirm"
    /\ last.result = "wrote_commit_warning"
    /\ fileWrites[last.id] = 1

\* the request that starts in this step: its operation and identifier, read
\* from the frame it occupies or, when it returns at once, from its result
StartedOp ==
    IF frame' = frame THEN last'.op
    ELSE frame'[CHOOSE t \in Threads : frame'[t] # frame[t]].op
StartedId ==
    IF frame' = frame THEN last'.id
    ELSE frame'[CHOOSE t \in Threads : frame'[t] # frame[t]].pending_id

\* C8: confirm_write and reject_pending_write on an identifier that is not
\* pending return the not-found failure and change neither the store nor
\* the filesystem; get_pending_write returns absence for it and never
\* changes the store.
C8_NotFoundStep ==
    ncalls' = ncalls + 1 =>
        /\ (StartedOp \in {"confirm", "reject"} /\ StartedId \notin Pending) =>
            /\ frame' = frame
            /\ last'.result = IF StartedOp = "confirm" THEN "not_found"
                              ELSE "rejection_failed"
            /\ UNCHANGED <<pending_writes_storage, disk, log>>
        /\ StartedOp = "get" =>
            /\ frame' = frame
            /\ last'.result = IF StartedId \in Pending THEN "entry" ELSE "None"
            /\ UNCHANGED <<pending_writes_storage, disk, log>>

C8_NotFoundUnchanged == [][C8_NotFoundStep]_vars

\* C8 witness: a confirm on an identifier that was pending and has been
\* removed has returned not found
C8_Witness ==
    /\ last.op = "confirm"
    /\ last.result = "not_found"
    /\ last.id \in issued
    /\ found[last.id] = 1

\* every validator accepts the code
Validated(code) ==
    code.formatted /\ code.ruff /\ code.syntax /\ code.semantic

\* C9 as claimed: every pending write the ask handler adds holds code that
\* passed the formatter, the linter, the syntax check and the semantic check.
C9_AllAddedValidated ==
    \A a \in added : Validated(a.code)

\* C9 as amended: every pending write the ask handler adds for a path ending
\* in .py holds the formatter's output, which passed the linter, the syntax
\* check and the semantic check.
C9_PythonAddedValidated ==
    /\ \A a \in added :
        EndsWith(a.path, <<".", "p", "y">>) => Validated(a.code)
    /\ \A t \in Threads :
        (frame[t].pc = "add_store"
            /\ EndsWith(frame[t].pending_op.path, <<".", "p", "y">>))
            => Validated(frame[t].pending_op.code)

\* C9 witness: a pending write for a .py path is in the store
C9_Witness ==
    \E id \in Pending :
        /\ EndsWith(pending_writes_storage[id].path, <<".", "p", "y">>)
        /\ pending_writes_storage[id] \in added

\* the validator that rejects the code first, in the order the handler runs
\* them, and what the handler logs and answers for it
FirstRejecting(code) ==
    CASE ~code.black -> 1
      [] ~code.ruff -> 2
      [] ~code.syntax -> 3
      [] ~code.semantic -> 4
      [] OTHER -> 0
ValidatorOrder == <<"black", "ruff", "syntax", "semantic">>
FailureLog == <<"formatting_failed", "lint_check_failed",
                "syntax_check_failed", "semantic_check_failed">>
FailureReply == <<"black_formatting_failed", "linting_failed",
                  "syntax_error_rejected", "semantic_validation_failed">>

\* C10: when the reply asks for a write to a .py path and a validator
\* rejects the code, the request returns that validator's failure message,
\* the failure is logged, no later validator is run and nothing is added to
\* the store.
C10_RejectedStep ==
    \A t \in Threads, p \in Prompts, r \in Replies :
        (/\ ask_marker(t, p, r.path, r.code)
         /\ EndsWith(r.path, <<".", "p", "y">>)
         /\ FirstRejecting(r.code) # 0)
        => /\ frame'[t].pc = "idle"
           /\ last'.op = "ask"
           /\ last'.result = FailureReply[FirstRejecting(r.code)]
           /\ last'.ran = SubSeq(ValidatorOrder, 1, FirstRejecting(r.code))
           /\ log' = Append(log, [action |-> FailureLog[FirstRejecting(r.code)],
                                  pending_id |-> NoId])
           /\ UNCHANGED <<pending_writes_storage, issued, added, disk>>

C10_RejectedNotStaged == [][C10_RejectedStep]_vars

\* C10 witness: the linter rejected the code of a request while an earlier
\* pending write was in the store
C10_Witness ==
    /\ last.op = "ask"
    /\ last.result = "linting_failed"
    /\ last.ran = <<"black", "ruff">>
    /\ Pending # {}
    /\ log[Len(log)].action = "lint_check_failed"

\* C11: when the call to the model times out, returns an error status or a
\* body without the expected content, the ask request fails as a whole: it
\* is answered with the error, no pending write is added to the store, no
\* identifier is drawn, and one ask_error line is appended to the audit log.
C11_FailedAskStep ==
    (/\ ncalls' = ncalls + 1
     /\ StartedOp = "ask"
     /\ frame' = frame
     /\ last'.result = "http_500")
    => /\ log' = Append(log, [action |-> "ask_error", pending_id |-> NoId])
       /\ UNCHANGED <<pending_writes_storage, issued, added, disk>>

C11_FailedAskAtomic == [][C11_FailedAskStep]_vars

\* C11 witness: an ask request failed at the model call while an earlier
\* pending write was in the store, and the last log line is its error
C11_Witness ==
    /\ last.op = "ask"
    /\ last.result = "http_500"
    /\ Pending # {}
    /\ log # << >>
    /\ log[Len(log)].action = "ask_error"

\* the normalised absolute form of root joined with a relative path, and
\* whether it is root or a descendant of root, component by component
FullOf(root, relative) == AbsPath(PathJoin(AbsStr(AbsPath(root)), relative))
Within(root, full) ==
    /\ Len(full) >= Len(AbsPath(root))
    /\ SubSeq(full, 1, Len(AbsPath(root))) = AbsPath(root)

\* C14: for every path resolver (context, include, suggest, analyze) and
\* every root: a relative path whose normalised absolute form is neither
\* root nor a descendant of root, a sibling directory sharing root's name
\* as a string prefix included, is rejected with the path-traversal error
\* and no file is read; a relative path that stays within root is not
\* rejected as a traversal and, when resolved, resolves to a descendant.
C14_Confined ==
    stage = "resolved" =>
        LET full == FullOf(args.base_path, args.relative_path)
        IN IF Within(args.base_path, full)
           THEN /\ loc.result.raises # "ValueError"
                /\ loc.result.raises = "" => loc.result.path = full
           ELSE /\ loc.result.raises = "ValueError"
                /\ ~loc.opened

\* the estimated cost of the block inject_context builds for a path it can
\* read: the word count of the file, or of its high-signal extract when the
\* file is above the per-file ceiling
Readable(repo_path, file_path) ==
    /\ Within(repo_path, FullOf(repo_path, file_path))
    /\ FullOf(repo_path, file_path) \in DOMAIN DiskFiles
CostOf(repo_path, file_path) ==
    LET f == DiskFiles[FullOf(repo_path, file_path)]
    IN IF f.words > MAX_TOKENS_PER_FILE THEN f.signal ELSE f.words

C13_Inv ==
    stage = "context_loop" =>
        /\ loc.token_budget >= 0
        /\ Cost(loc.context_blocks) + loc.token_budget = args.max_tokens
        /\ Cost(loc.context_blocks) <= args.max_tokens

C13_Step ==
    /\ (stage = "context" /\ stage' = "context_loop") =>
           /\ loc'.token_budget = args.max_tokens
           /\ loc'.context_blocks = << >>
    /\ (stage = "context_loop" /\ stage' = "context_loop") =>
           LET file_path == Head(loc.file_paths)
               cost == CostOf(args.repo_path, file_path)
           IN IF ~Readable(args.repo_path, file_path)
              THEN /\ loc'.token_budget = loc.token_budget
                   /\ loc'.context_blocks = loc.context_blocks
              ELSE IF cost > loc.token_budget
              THEN /\ loc'.token_budget = loc.token_budget
                   /\ loc'.context_blocks = loc.context_blocks
                   /\ loc'.warnings =
                          Append(loc.warnings,
                                 [kind |-> "not_enough_budget",
                                  path |-> file_path,
                                  left |-> loc.token_budget, needed |-> cost])
              ELSE /\ loc'.token_budget = loc.token_budget - cost
                   /\ Len(loc'.context_blocks) = Len(loc.context_blocks) + 1
                   /\ loc'.context_blocks[Len(loc'.context_blocks)].cost = cost
                   /\ loc'.context_blocks[Len(loc'.context_blocks)].path
                          = file_path

IsBlock(part) == part.k = "block"
BlocksIn(prompt) == SelectSeq(prompt, IsBlock)
IsContextBlock(part) == part.k = "block" /\ part.by = "context"
IsWholeFileInclude(part) ==
    part.k = "block" /\ part.by = "include" /\ part.what = "file"

\* C12 as claimed: within one request one token budget is shared by the
\* whole pipeline, so that the estimated costs of all the blocks injected
\* into the composed prompt (manifest, suggest, include, context) never sum
\* to more than the per-request ceiling.
C12_SharedBudget ==
    Len(returned) = 4 =>
        Cost(BlocksIn(returned[4].prompt)) <= MAX_CONTEXT_TOKENS

\* C12 as amended: the budget belongs to inject_context alone.  It starts at
\* the ceiling whatever the earlier resolvers injected, the costs of the
\* context blocks of the composed prompt never sum to more than the
\* ceiling, and a file included whole costs at most MAX_INCLUDE_TOKENS.
C12_ContextBudgetOnly ==
    /\ stage = "context_loop" =>
           loc.token_budget + Cost(loc.context_blocks) = MAX_CONTEXT_TOKENS
    /\ Len(returned) = 4 =>
           Cost(SelectSeq(returned[4].prompt, IsContextBlock))
               <= MAX_CONTEXT_TOKENS
    /\ Len(returned) >= 3 =>
           \A i \in 1..Len(returned[3].prompt) :
               IsWholeFileInclude(returned[3].prompt[i])
                   => returned[3].prompt[i].cost <= MAX_INCLUDE_TOKENS

\* C12 witness: an include and the context blocks together cost more than
\* the ceiling, and the context blocks alone nearly reach it
C12_Witness ==
    /\ Len(returned) = 4
    /\ Cost(BlocksIn(returned[4].prompt)) > MAX_CONTEXT_TOKENS
    /\ Cost(SelectSeq(returned[4].prompt, IsContextBlock)) > MAX_TOKENS_PER_FILE
    /\ \E i \in 1..Len(returned[4].prompt) :
           IsWholeFileInclude(returned[4].prompt[i])

\* the order in which ask_llm calls the resolvers
ResolverOrder == <<"manifest", "suggest", "include", "context">>

\* the warnings of the first n results, one after the other
RECURSIVE WarningsOf(_, _)
WarningsOf(results, n) ==
    IF n = 0 THEN << >>
    ELSE WarningsOf(results, n - 1) \o results[n].warnings

\* C15: within one ask request the resolvers run in the order manifest,
\* suggest, include, context; each is given exactly the prompt the one
\* before returned; the warnings are accumulated in that order; the model
\* is called only after all four have returned; and a pending write is
\* added only after the model has replied.
C15_FixedOrder ==
    /\ Len(returned) <= 4
    /\ \A i \in 1..Len(returned) :
           /\ returned[i].by = ResolverOrder[i]
           /\ returned[i].given = IF i = 1 THEN args.prompt
                                  ELSE returned[i - 1].prompt
    /\ all_warnings = WarningsOf(returned, Len(returned))
    /\ (ncalls > 0 \/ frame[1].pc # "idle") =>
           (Len(returned) = 4 /\ stage = "model")
    /\ (added # {} \/ Pending # {} \/ frame[1].pc \in {"add_store", "add_log"}) =>
           (ncalls = 1 /\ Len(returned) = 4)

\* C15 witness: two resolvers changed the prompt and warned, and the
\* request has staged a write
C15_Witness ==
    /\ Len(returned) = 4
    /\ returned[2].prompt # returned[2].given
    /\ returned[2].warnings # << >>
    /\ returned[4].prompt # returned[4].given
    /\ returned[4].warnings # << >>
    /\ Len(all_warnings) >= 3
    /\ Pending # {}

\* what a resolver spliced into a prompt: its blocks and its notes
SplicedBy(prompt, by) ==
    SelectSeq(prompt, LAMBDA part : part.k \in {"block", "text"} /\ part.by = by)
BlocksBy(prompt, by) ==
    SelectSeq(prompt, LAMBDA part : part.k = "block" /\ part.by = by)
NotesBy(prompt, by) ==
    SelectSeq(prompt, LAMBDA part : part.k = "text" /\ part.by = by
                                    /\ part.what = "unavailable")
WarningsBut(warnings, kind) ==
    SelectSeq(warnings, LAMBDA w : w.kind # kind)

\* inject_manifest: the marker is gone, and a missing manifest is warned of
ManifestHandled(res) ==
    IF HasPart(res.given, ManifestMark)
    THEN /\ ~HasPart(res.prompt, ManifestMark)
         /\ Len(res.warnings) = IF manifest_data.loaded THEN 0 ELSE 1
    ELSE res.warnings = << >>

\* inject_includes: every directive gave a block or a warning, and the
\* directives are gone
IncludesHandled(res) ==
    /\ FindAll(res.prompt, "include") = << >>
    /\ Len(BlocksBy(res.prompt, "include"))
           + Len(WarningsBut(res.warnings, "include_skipped"))
         = Len(FindAll(res.given, "include"))

\* inject_context: every path gave a block or a warning, no block is of a
\* path that cannot be read, and the directives are gone
ContextHandled(res) ==
    LET paths == AllPaths(FindAll(res.given, "context"))
        blocks == BlocksBy(res.prompt, "context")
        failures == WarningsBut(res.warnings, "clipped")
    IN /\ FindAll(res.prompt, "context") = << >>
       /\ Len(blocks) + Len(failures) = Len(paths)
       /\ \A i \in 1..Len(blocks) : Readable(REPO_PATH, blocks[i].path)
       /\ \A i \in 1..Len(paths) :
              ~Readable(REPO_PATH, paths[i]) =>
                  \E j \in 1..Len(failures) : failures[j].path = paths[i]

\* inject_suggestions, every directive: each gave a block or a note with a
\* warning, and none is left
AllSuggestsHandled(res) ==
    /\ FindAll(res.prompt, "suggest") = << >>
    /\ Len(SplicedBy(res.prompt, "suggest")) = Len(FindAll(res.given, "suggest"))
    /\ Len(res.warnings) = Len(NotesBy(res.prompt, "suggest"))

\* inject_suggestions, the first directive only
FirstSuggestHandled(res) ==
    /\ Len(SplicedBy(res.prompt, "suggest"))
           = IF FindAll(res.given, "suggest") = << >> THEN 0 ELSE 1
    /\ Len(res.warnings) = Len(NotesBy(res.prompt, "suggest"))

InvalidSuggests == {<<"a", ":", "0", "-", "5">>, <<"a">>}

SuggestedFile == DiskFiles[FullOf(args.repo_path, args.path)]
SuggestPart == returned[2].prompt[1]

\* the line numbers from lo to hi
Range(lo, hi) == [i \in 1..Max(0, hi - lo + 1) |-> lo + i - 1]

\* the line numbers from lo to hi without the blank lines at either end
Trimmed(lo, hi, lines) ==
    LET text == {i \in lo..hi : lines[i] = "text"}
    IN IF text = {} THEN << >>
       ELSE Range(CHOOSE i \in text : \A j \in text : i <= j,
                  CHOOSE i \in text : \A j \in text : i >= j)

\* C18 as claimed: for a suggest directive path:start-end with
\* 1 <= start <= end on a file of n lines, the returned block consists of
\* exactly the lines max(1, start-10) through min(n, end+10), and reports
\* these bounds and the requested start-end.
C18_WindowLines ==
    (Len(returned) = 2 /\ 1 <= args.start /\ args.start <= args.end) =>
        LET n == Len(SuggestedFile.lines)
            lo == Max(1, args.start - 10)
            hi == Min(n, args.end + 10)
        IN /\ SuggestPart.k = "block"
           /\ SuggestPart.shown = Range(lo, hi)
           /\ SuggestPart.actual_start = lo
           /\ SuggestPart.actual_end = hi
           /\ SuggestPart.start_line = args.start
           /\ SuggestPart.end_line = args.end

\* C18 as amended: the returned block consists of the lines
\* max(1, start-10) through min(n, end+10) less the blank lines at either
\* end of that range, and reports these bounds (untrimmed) and the
\* requested start-end.
C18_WindowTrimmed ==
    (Len(returned) = 2 /\ 1 <= args.start /\ args.start <= args.end) =>
        LET n == Len(SuggestedFile.lines)
            lo == Max(1, args.start - 10)
            hi == Min(n, args.end + 10)
        IN /\ SuggestPart.k = "block"
           /\ SuggestPart.shown = Trimmed(lo, hi, SuggestedFile.lines)
           /\ SuggestPart.actual_start = lo
           /\ SuggestPart.actual_end = hi
           /\ SuggestPart.start_line = args.start
           /\ SuggestPart.end_line = args.end

\* C18 witness: the directive a:10-20 on the file of 40 lines returned the
\* lines 1 to 30
C18_Witness ==
    /\ Len(returned) = 2
    /\ args.path = <<"a">> /\ args.start = 10 /\ args.end = 20
    /\ SuggestPart.k = "block"
    /\ SuggestPart.actual_start = 1 /\ SuggestPart.actual_end = 30
    /\ Len(SuggestPart.shown) = 30

\* C19: a suggest directive whose start or end lies beyond the last line of
\* the file produces a warning and is skipped: no suggest block is injected
\* for it, and the returned bounds a block reports never have the start
\* above the end.
C19_OutOfRangeSkipped ==
    Len(returned) = 2 =>
        /\ (/\ 1 <= args.start /\ args.start <= args.end
            /\ args.end > Len(SuggestedFile.lines))
           => /\ returned[2].warnings # << >>
              /\ SuggestPart.k # "block"
        /\ SuggestPart.k = "block" =>
               SuggestPart.actual_start <= SuggestPart.actual_end

\* the directive keyword of each resolver, in the order of the calls
HasDirective(prompt, by) ==
    IF by = "manifest" THEN HasPart(prompt, ManifestMark)
    ELSE FindAll(prompt, by) # << >>

\* C20: a resolver run on a prompt that holds none of its directives
\* returns the prompt unchanged up to the trimming of surrounding
\* whitespace, with no warning and with no block or wrapper text of its own.
C20_NoDirectiveNoChange ==
    \A i \in 1..Len(returned) :
        ~HasDirective(returned[i].given, ResolverOrder[i]) =>
            /\ returned[i].prompt \in {returned[i].given,
                                       Strip(returned[i].given, Space)}
            /\ returned[i].warnings = << >>
            /\ SplicedBy(returned[i].prompt, ResolverOrder[i]) = << >>

\* C20 witness: a prompt of a blank and a word went through the four
\* resolvers and came out trimmed, without a warning
C20_Witness ==
    /\ Len(returned) = 4
    /\ args.prompt = <<Space, Word>>
    /\ returned[2].prompt = <<Space, Word>>
    /\ returned[4].prompt = <<Word>>
    /\ all_warnings = << >>

\* what C21 expects of one include directive with a target on a readable
\* file: a block holding the whole definition statement, a block saying the
\* target could not be found, or a warning and no block
IncludeFile(raw) == Strip(SplitFirst(raw, ":")[1], " ")
IncludeInScope(raw) ==
    /\ Contains(raw, ":")
    /\ Readable(args.repo_path, IncludeFile(raw))
IncludeExpected(raw) ==
    LET target == SplitFirst(raw, ":")[2]
        key == Lower(Strip(SplitFirst(target, "=")[1], " "))
        name == Strip(SplitFirst(target, "=")[2], " ")
        f == DiskFiles[FullOf(args.repo_path, IncludeFile(raw))]
    IN IF ~Contains(target, "=") \/ key \notin {FunctionKey, ClassKey}
       THEN [block |-> FALSE, what |-> "warning", first |-> 0, last |-> 0]
       ELSE IF \E df \in f.defs : df.name = name
       THEN LET df == CHOOSE df \in f.defs : df.name = name
            IN [block |-> TRUE, what |-> "definition",
                first |-> df.first, last |-> df.last]
       ELSE [block |-> TRUE, what |-> "could_not_find", first |-> 0, last |-> 0]
IncludeExpectedAll(matches) ==
    [i \in 1..Len(matches) |-> IncludeExpected(matches[i])]

\* C21: for an include directive path:function=name or path:class=name on a
\* readable file inside the repository: a file with a top-level definition
\* of that name gives that definition's source verbatim under the Included
\* marker, followed by the cleaned user text, and no warning; a file without
\* one gives a "could not find target" block; an unrecognized key or a
\* payload without "=" gives a warning and no block.
C21_NamedInclude ==
    LET matches == FindAll(returned[3].given, "include")
        expected == SelectSeq(IncludeExpectedAll(matches), LAMBDA e : e.block)
        blocks == BlocksBy(returned[3].prompt, "include")
    IN (/\ Len(returned) = 3
        /\ \A i \in 1..Len(matches) : IncludeInScope(matches[i]))
       => /\ Len(blocks) = Len(expected)
          /\ \A i \in 1..Len(blocks) :
                /\ i <= Len(expected)
                /\ blocks[i].what = expected[i].what
                /\ blocks[i].first = expected[i].first
                /\ blocks[i].last = expected[i].last
          /\ Len(returned[3].warnings) = Len(matches) - Len(expected)
          /\ blocks # << >> =>
                returned[3].prompt =
                    <<Text("include", "included_code_blocks")>> \o blocks
                    \o <<Text("include", "user_prompt")>>
                    \o Strip(SubAll(returned[3].given, "include"), Space)

\* C22: a pending entry is never modified between its creation and its
\* removal: while an identifier is pending, whatever add, get, confirm and
\* reject calls are made, its entry holds the prompt, path, code, timestamp
\* and repository root given at its add_pending_write, and what confirm_write
\* writes to the target file is that code.
C22_Inv ==
    \A id \in Pending :
        /\ Cardinality({a \in added : a.id = id}) = 1
        /\ pending_writes_storage[id] \in added
        /\ pending_writes_storage[id].id = id
C22_Step ==
    /\ \A id \in Pending :
          id \in DOMAIN pending_writes_storage' =>
              pending_writes_storage'[id] = pending_writes_storage[id]
    /\ \A id \in Ids :
          fileWrites'[id] # fileWrites[id] =>
              \E a \in added :
                  /\ a.id = id
                  /\ abs_file_path(a.repo_base_path, a.path) \in DOMAIN files'
                  /\ files'[abs_file_path(a.repo_base_path, a.path)] = a.code
C23_Step ==
    \A id \in Ids :
        rejected[id] >= 1 =>
            /\ fileWrites'[id] = fileWrites[id]
            /\ gitRuns'[id] = gitRuns[id]
C23_RejectedNeverApplied == [][C23_Step]_vars

\* C24: under every interleaving of confirm_write and reject_pending_write
\* calls on one identifier, each call returns a result dictionary: none ends
\* with an uncaught exception (none from deleting an entry another caller
\* has removed), and none reports "Failed to write file" after its own write
\* of the file succeeded.
C24_EveryCallReturns ==
    last.op \in {"confirm", "reject"} =>
        /\ last.result # "raised_KeyError"
        /\ ~(last.result = "failed_to_write" /\ last.wrote)

\* C25: the confirm-write endpoint signals failure exactly when confirm_write
\* did not write the file (identifier not found, path outside the
\* repository, the write raised); whenever the file was written it returns
\* the result message as a success, whatever the name of the target path and
\* whether or not the git commit succeeded.
C25_FailureIffNotWritten ==
    last.op = "confirm" =>
        LET path == IF \E a \in added : a.id = last.id
                    THEN (CHOOSE a \in added : a.id = last.id).path
                    ELSE << >>
        IN confirm_write_operation(last.result, path) # 200 <=> ~last.wrote

\* the payloads of the directives of one keyword written in the prompt
\* itself, not in text spliced into it
WrittenIn(prompt, keyword) ==
    LET written == SelectSeq(prompt, LAMBDA part : part.k = keyword)
    IN [i \in 1..Len(written) |-> written[i].payload]

\* C26: only the directives written in the user's original prompt are
\* resolved: text an earlier resolver spliced in (manifest content, a suggest
\* block, an included file) is never read as a directive by a later one, so
\* directive text inside a repository file causes no further file to be read
\* or injected and is not stripped from the injected content.
C26_OnlyWrittenDirectives ==
    \A n \in 1..Len(returned) :
        LET r == returned[n]
        IN /\ \A i \in 1..Len(r.given) :
                 Spliced(r.given[i]) =>
                     \E j \in 1..Len(r.prompt) : r.prompt[j] = r.given[i]
           /\ r.by = "suggest" =>
                 Len(SplicedBy(r.prompt, "suggest"))
                     = IF WrittenIn(args.prompt, "suggest") = << >> THEN 0 ELSE 1
           /\ r.by = "include" =>
                 Len(BlocksBy(r.prompt, "include"))
                     + Len(WarningsBut(r.warnings, "include_skipped"))
                   = Len(WrittenIn(args.prompt, "include"))
           /\ r.by = "context" =>
                 Len(BlocksBy(r.prompt, "context"))
                     + Len(WarningsBut(r.warnings, "clipped"))
                   = Len(AllPaths(WrittenIn(args.prompt, "context")))

\* the log lines of what happened to a staged write
TerminalActions == {"write_file_confirmed", "git_commit_failed",
                    "confirm_write_failed", "pending_write_rejected"}

\* C27: in the audit log, under any interleaving of concurrent requests, the
\* pending_write_added entry of an identifier precedes every
\* write_file_confirmed, git_commit_failed, confirm_write_failed and
\* pending_write_rejected entry of that identifier; entries are only
\* appended; an identifier has at most one pending_write_rejected entry.
C27_Inv ==
    /\ \A i \in 1..Len(log) :
          log[i].action \in TerminalActions =>
              \E j \in 1..(i - 1) :
                  log[j] = [action |-> "pending_write_added",
                            pending_id |-> log[i].pending_id]
    /\ \A id \in Ids : Cardinality(LogLines("pending_write_rejected", id)) <= 1
C27_Step ==
    \/ log' = log
    \/ /\ Len(log') = Len(log) + 1
       /\ SubSeq(log', 1, Len(log)) = log
C27_LogOrdered == []C27_Inv /\ [][C27_Step]_vars

\* C27 witness: a confirm and a reject raced on one identifier: after its
\* pending_write_added line the log holds its write_file_confirmed line, a
\* git_commit_failed line and its one pending_write_rejected line
C27_Witness ==
    \E id \in Ids :
        /\ LogLines("pending_write_added", id) # {}
        /\ LogLines("write_file_confirmed", id) # {}
        /\ LogLines("git_commit_failed", id) # {}
        /\ LogLines("pending_write_rejected", id) # {}

====
